---- MODULE Spec2Model ----
(***************************************************************************)
(* The noctis kernel on its single CPU: the boot sequence of kernel_main,  *)
(* the task list and the scheduler (task.rs), the interrupt trampoline and *)
(* dispatcher (idt.rs), the local APIC timer (timer.rs) and the spin locks *)
(* (spin.rs).  The CPU is a program counter, a stack pointer, a register   *)
(* file and the interrupt flag; stacks are memory, so that a value written *)
(* to a stack stays there until it is overwritten.                         *)
(* The page table manager (paging.rs) is a set of operators on a table and *)
(* the heap its nodes come from; PagingSpec applies them to drawn          *)
(* arguments.                                                              *)
(***************************************************************************)
EXTENDS Integers, Sequences, FiniteSets, TLC

\* ------------------------------------------------------------------ bounds
\* Most tasks ever created (the idle task included).
MaxTasks == 3
\* Most timer interrupts the local APIC delivers in one run.
MaxTimerIrqs == 6

\* ------------------------------------------------------- program constants
\* check_and_schedule: the quantum, in ticks.
QUANTUM == 3
\* The vectors the IDT wires to their own entry stubs.
VEC_BREAKPOINT == 3
VEC_INVALID_OPCODE == 6
VEC_GENERAL_PROTECTION == 13
VEC_PAGE_FAULT == 14
VEC_TIMER == 42
\* CpuContextBlock::new: current_task starts as None.
NoTask == -1
\* Every gate of the IDT names interrupt stack 1 of the TSS: every
\* interrupt starts at the top of that one stack.  Stack 0 of the model.
IstStack == 0

Vectors == {VEC_BREAKPOINT, VEC_INVALID_OPCODE, VEC_GENERAL_PROTECTION,
            VEC_PAGE_FAULT, VEC_TIMER}
\* interrupt_entry_with_ecode!: the vectors for which the CPU pushes an
\* error code itself.
WithErrorCode == {VEC_GENERAL_PROTECTION, VEC_PAGE_FAULT}

\* ------------------------------------------------------------- registers
\* The fifteen general-purpose registers other than rsp (rsp is sp below).
CalleeSaved == {"rbx", "rbp", "r12", "r13", "r14", "r15"}
CallerSaved == {"rax", "rcx", "rdx", "rsi", "rdi", "r8", "r9", "r10", "r11"}
Gpr == CalleeSaved \cup CallerSaved
\* interrupt_handler_common: the order of the sixteen pushes ...
PushOrder ==
    <<"r15", "r14", "r13", "r12", "r11", "r10", "r9", "r8",
      "rdi", "rsi", "rbp", "rsp", "rbx", "rdx", "rcx", "rax">>
\* ... and of the sixteen pops.
PopOrder ==
    <<"rax", "rcx", "rdx", "rbx", "rsp", "rbp", "rsi", "rdi",
      "r8", "r9", "r10", "r11", "r12", "r13", "r14", "r15">>
\* The register file in which every register holds v.
AllRegs(v) == [n \in Gpr |-> v]
\* What a call of a compiled (sysv64 / Rust) function may do to the caller's
\* registers: the callee-saved ones come back, the others are scratch.
Clobber(rf) == [n \in Gpr |-> IF n \in CallerSaved THEN 0 ELSE rf[n]]

\* ------------------------------------------------------------- addresses
\* A machine word that holds an address: the region it lies in and the
\* offset in the region.  "direct" is the linear mapping of physical memory
\* at LINER_MAPPING_BASE_VADDR, "kcode" the kernel image mapping, "phys" a
\* physical address (a value below both bases).
DirectVA(off) == <<"direct", off>>
\* memlayout.rs virt_to_phys: subtracts the base of the region.
virt_to_phys(v) ==
    IF v[1] = "direct" THEN <<"phys", v[2]>>
    ELSE IF v[1] = "kcode" THEN <<"phys", v[2]>>
    ELSE <<"panic", v[2]>>
\* The address of the n-th page table the kernel heap hands out: the heap
\* lies in the direct mapping (loader: heap_base = phys + KERNEL_DIRECT_START).
PageTableVA(n) == DirectVA(n)

\* ---------------------------------------------------------------- stacks
\* The words of a stack.  A stack is the sequence of its words from its top
\* address downwards; a stack pointer <<s, d>> points at word d of stack s
\* (d = 0: the empty stack).  Task pid's kernel stack is stack pid + 1; the
\* boot stack is the idle task's (stack 1).
StackOf(pid) == pid + 1
NullSp == <<-1, 0>>
\* The frame the CPU pushes on an interrupt: rip, rflags (the interrupt
\* flag) and rsp of the interrupted code.  r0 records the register file at
\* entry; no code reads it.
HwCell(rip, fl, s, r0) == [k |-> "hw", lab |-> rip, fl |-> fl, s |-> s, r0 |-> r0]
\* A return address.
RetCell(lab) == [k |-> "ret", lab |-> lab]
\* A data word.
WordCell(n) == [k |-> "w", n |-> n]
\* A saved stack pointer.
SpCell(s) == [k |-> "sp", s |-> s]

\* Write word c at position d of the stack contents m.
Put(m, d, c) == IF d <= Len(m) THEN [m EXCEPT ![d] = c] ELSE Append(m, c)
\* push: st = [m |-> contents, d |-> depth] of one stack.
PushOn(st, c) == [m |-> Put(st.m, st.d + 1, c), d |-> st.d + 1]

\* interrupt_handler_common, "push r15" .. "push rax": pushes
\* PushOrder[i..16] of register file rf on stack stk.
RECURSIVE PushRegs(_, _, _, _)
PushRegs(st, i, rf, stk) ==
    IF i > Len(PushOrder) THEN st
    ELSE LET n == PushOrder[i]
             c == IF n = "rsp" THEN SpCell(<<stk, st.d>>) ELSE WordCell(rf[n])
         IN PushRegs(PushOn(st, c), i + 1, rf, stk)

\* interrupt_handler_common, "pop rax" .. "pop r15": acc = [m, d, rf, ok].
\* "pop rsp" loads the stack pointer with the popped word.
RECURSIVE PopRegs(_, _)
PopRegs(acc, i) ==
    IF i > Len(PopOrder) THEN acc
    ELSE LET n == PopOrder[i]
             c == acc.m[acc.d]
         IN IF n = "rsp"
            THEN IF c.k = "sp"
                 THEN PopRegs([acc EXCEPT !.d = c.s[2]], i + 1)
                 ELSE [acc EXCEPT !.ok = FALSE]
            ELSE PopRegs([acc EXCEPT !.d = acc.d - 1,
                                     !.rf[n] = IF c.k = "w" THEN c.n ELSE 0],
                         i + 1)

\* ---------------------------------------------------------------- paging
\* paging.rs.  Machine words are 64 bits wide and are kept in parts:
\*   b63  bit 63;
\*   up   bits 47..62 hold the bits of KERNEL_DIRECT_START (an address of the
\*        direct mapping, or what is left of one) rather than zeros;
\*   pn   the page number within that (the bits from 12 upwards);
\*   off  the low twelve bits of an address, or
\*   low  the attribute bits among the low twelve bits of a table entry.
\* A virtual address handed to the mapping functions is kept as its four
\* table indices, idx[level], and its page offset.

\* PageTableNode: entries per node.
ENTRIES == 512
\* PAGE_SIZE, in bytes.
PAGE_SIZE == 4096
\* 1 << 18: the 4 KiB pages of one GiB.
GiBPages == 262144
\* The page of the first node the kernel heap hands out (the heap is the
\* memory the loader allocated: its place is the firmware's choice).
HeapFirstPage == 1000

\* The attribute bits of a PageTableAttr.
PageTableAttr(a) ==
    CASE a = "NotPresent" -> {}
      [] a = "ReadExecuteKernel" -> {"P"}
      [] a = "ReadKernel" -> {"P", "NX"}
      [] a = "ReadWriteExecuteKernel" -> {"P", "W"}
      [] a = "ReadWriteKernel" -> {"P", "W", "NX"}
      [] a = "ReadWriteKernel1GiB" -> {"P", "W", "NX", "HUGE"}
      [] a = "ReadWriteKernelIO" -> {"P", "W", "WT", "CD", "NX"}

\* PhysAddr::new / a pointer: an address word.
Addr(b63, up, pn, off) == [b63 |-> b63, up |-> up, pn |-> pn, off |-> off]
\* VirtAddr::new, by table indices.
VAddr(i4, i3, i2, i1, off) == [idx |-> <<i1, i2, i3, i4>>, off |-> off]
\* VirtAddr::nth_level_table_index.
nth_level_table_index(v, level) == v.idx[level]

\* VirtAddr::add(PAGE_SIZE): wrapping_add, then canonicalize.  The carry
\* runs through the four indices and is lost beyond the fourth (bits 48..63
\* follow bit 47).
VirtAddr_add(v) ==
    LET s1 == v.idx[1] + 1
        s2 == v.idx[2] + (s1 \div ENTRIES)
        s3 == v.idx[3] + (s2 \div ENTRIES)
        s4 == v.idx[4] + (s3 \div ENTRIES)
    IN [v EXCEPT !.idx = <<s1 % ENTRIES, s2 % ENTRIES, s3 % ENTRIES,
                           s4 % ENTRIES>>]

\* PageTableEntry: the zeroed entry, and accessors.
ZeroEntry == [b63 |-> FALSE, up |-> FALSE, pn |-> 0, low |-> {}]
is_present(e) == "P" \in e.low
is_huge(e) == "HUGE" \in e.low
\* PageTableEntry::paddr: value & PTE_ATTR_MASK (bits 12..62).
paddr(e) == Addr(FALSE, e.up, e.pn, 0)

\* A node is the function from the indices of its non-zero entries to them.
EmptyNode == [j \in {} |-> ZeroEntry]
EntryAt(node, i) == IF i \in DOMAIN node THEN node[i] ELSE ZeroEntry
Upd(node, i, e) ==
    IF e = ZeroEntry
    THEN [j \in (DOMAIN node) \ {i} |-> node[j]]
    ELSE [j \in (DOMAIN node) \cup {i} |-> IF j = i THEN e ELSE node[j]]

\* A page table with the heap its nodes come from: the pml4 inside the
\* PageTable, the nodes Box::new has handed out so far, in order, and where
\* the heap lies ("identity": at its physical addresses; "direct": in the
\* direct mapping).  Node 0 is the pml4, node n >= 1 is nodes[n].
PageTable_new(heap) == [pml4 |-> EmptyNode, nodes |-> <<>>, heap |-> heap]
NodeOf(T, r) == IF r = 0 THEN T.pml4 ELSE T.nodes[r]
Store(T, r, i, e) ==
    IF r = 0 THEN [T EXCEPT !.pml4 = Upd(@, i, e)]
    ELSE [T EXCEPT !.nodes[r] = Upd(@, i, e)]
\* LinerAllocator::alloc for a PageTableNode (size and alignment 4096): the
\* pointer to the n-th node.
NodePtr(T, n) ==
    Addr(T.heap = "direct", T.heap = "direct", HeapFirstPage + (n - 1), 0)

NoNode == -1
\* The node a pointer points to, or NoNode.
NodeAt(T, p) ==
    IF \E n \in 1..Len(T.nodes) : NodePtr(T, n) = p
    THEN CHOOSE n \in 1..Len(T.nodes) : NodePtr(T, n) = p
    ELSE NoNode

\* "paddr.as_usize() & !PTE_ATTR_MASK != 0": a bit among 0..11 or bit 63.
all_aligned(pa) == FALSE
misaligned(pa) == pa.b63 \/ pa.off # 0
\* PageTableEntry::set_entry.
set_entry(e, pa, attr) ==
    IF misaligned(pa)
    THEN [res |-> "Err", e |-> e]
    ELSE [res |-> "Ok",
          e |-> [b63 |-> "NX" \in PageTableAttr(attr), up |-> pa.up,
                 pn |-> pa.pn, low |-> PageTableAttr(attr) \ {"NX"}]]

\* PageTableEntry::alloc_next_level_table on entry i of node r: the pointer
\* of the new node, or-ed with ReadWriteExecuteKernel, becomes the value.
alloc_next_level_table(T, r, i) ==
    IF is_present(EntryAt(NodeOf(T, r), i))
    THEN [t |-> T, res |-> "Err"]
    ELSE LET T1 == [T EXCEPT !.nodes = Append(@, EmptyNode)]
             p == NodePtr(T1, Len(T1.nodes))
             e == [b63 |-> p.b63, up |-> p.up, pn |-> p.pn,
                   low |-> PageTableAttr("ReadWriteExecuteKernel")]
         IN [t |-> Store(T1, r, i, e), res |-> "Ok"]

\* PageTableEntry::next_node_mut: the entry's paddr() taken as a pointer to
\* a node.  "None" for an entry not present; otherwise [ptr |-> the pointer,
\* node |-> the node at it (NoNode: the pointer leads to no node)].
next_node_mut(T, e) ==
    IF ~is_present(e) THEN [none |-> TRUE, ptr |-> paddr(e), node |-> NoNode]
    ELSE [none |-> FALSE, ptr |-> paddr(e), node |-> NodeAt(T, paddr(e))]

\* get_or_alloc_next_level_table: "if !self.is_present()".
alloc_always(e) == TRUE
alloc_needed(e) == ~is_present(e)

\* PageTableEntry::get_or_alloc_next_level_table on entry i of node r.
\* res: "Ok" with the next node; "Panic" (an unwrap failed); "Fault" (the
\* pointer is no canonical address: the access raises #GP); "UB" (the
\* pointer leads to memory that holds no node).
\* ... "Ok(self.next_node_mut().unwrap())", nx what next_node_mut gave:
unwrap_next_node(T, nx) ==
    IF nx.none THEN [t |-> T, res |-> "Panic", node |-> NoNode]
    ELSE IF nx.ptr.b63 # nx.ptr.up
    THEN [t |-> T, res |-> "Fault", node |-> NoNode]
    ELSE IF nx.node = NoNode THEN [t |-> T, res |-> "UB", node |-> NoNode]
    ELSE [t |-> T, res |-> "Ok", node |-> nx.node]
\* ... "self.alloc_next_level_table().unwrap()", a what the allocation gave:
unwrap_alloc(a, r, i) ==
    IF a.res # "Ok" THEN [t |-> a.t, res |-> "Panic", node |-> NoNode]
    ELSE unwrap_next_node(a.t, next_node_mut(a.t, EntryAt(NodeOf(a.t, r), i)))
get_or_alloc_next_level_table(T, r, i) ==
    unwrap_alloc(IF alloc_needed(EntryAt(NodeOf(T, r), i))
                 THEN alloc_next_level_table(T, r, i)
                 ELSE [t |-> T, res |-> "Ok"],
                 r, i)

\* map: "for level in (2..=4).rev()" from node r at this level: the node of
\* level 1 (the page table) for v, allocated on the way where absent.
RECURSIVE descend(_, _, _, _)
\* ... g what get_or_alloc_next_level_table gave at this level:
descend_next(g, v, level) ==
    IF g.res # "Ok" THEN g ELSE descend(g.t, g.node, v, level - 1)
descend(T, r, v, level) ==
    IF level < 2 THEN [t |-> T, res |-> "Ok", node |-> r]
    ELSE descend_next(get_or_alloc_next_level_table(
                          T, r, nth_level_table_index(v, level)),
                      v, level)

\* map: "if index == 0 && i != 0".
never_rewalk(index, i) == FALSE
needs_rewalk(index, i) == index = 0 /\ i # 0

\* map: the loop over the pages, from page i on.
RECURSIVE map_pages(_, _, _, _, _, _, _, _)
\* ... "node.entries[index].set_entry(paddr, attr)?" and the rest of the
\* body, s what set_entry gave:
map_page_set(T, node, s, vaddr, pa, start_index, i, num_pages, attr) ==
    IF s.res # "Ok" THEN [t |-> T, res |-> "Err"]
    ELSE map_pages(Store(T, node, (start_index + i) % ENTRIES, s.e), node,
                   VirtAddr_add(vaddr), [pa EXCEPT !.pn = @ + 1],
                   start_index, i + 1, num_pages, attr)
\* ... w the page table to write to, after the walk where there was one:
map_page(w, vaddr, pa, start_index, i, num_pages, attr) ==
    IF w.res # "Ok" THEN [t |-> w.t, res |-> w.res]
    ELSE map_page_set(w.t, w.node,
                      set_entry(EntryAt(NodeOf(w.t, w.node),
                                        (start_index + i) % ENTRIES),
                                pa, attr),
                      vaddr, pa, start_index, i, num_pages, attr)
map_pages(T, node, vaddr, pa, start_index, i, num_pages, attr) ==
    IF i >= num_pages THEN [t |-> T, res |-> "Ok"]
    ELSE map_page(IF needs_rewalk((start_index + i) % ENTRIES, i)
                  THEN descend(T, 0, vaddr, 4)
                  ELSE [t |-> T, res |-> "Ok", node |-> node],
                  vaddr, pa, start_index, i, num_pages, attr)

\* map: the loop of the 1 GiB branch, from entry i on.  The index
\* pdpt_index + i is not reduced: beyond the node it is out of bounds.
RECURSIVE map_huge(_, _, _, _, _, _, _)
\* ... "entry.set_entry(..)?", s what set_entry gave:
map_huge_set(T, pdpt, s, pdpt_index, pa, i, count, attr) ==
    IF s.res # "Ok" THEN [t |-> T, res |-> "Err"]
    ELSE map_huge(Store(T, pdpt, pdpt_index + i, s.e), pdpt, pdpt_index, pa,
                  i + 1, count, attr)
map_huge(T, pdpt, pdpt_index, pa, i, count, attr) ==
    IF i >= count THEN [t |-> T, res |-> "Ok"]
    ELSE IF pdpt_index + i >= ENTRIES THEN [t |-> T, res |-> "Panic"]
    ELSE map_huge_set(T, pdpt,
                      set_entry(EntryAt(NodeOf(T, pdpt), pdpt_index + i),
                                [pa EXCEPT !.pn = @ + i * GiBPages], attr),
                      pdpt_index, pa, i, count, attr)

\* map: the test of the 1 GiB branch.
use_huge_any_count(attr, v, pa, num_pages) ==
    /\ attr = "ReadWriteKernel1GiB"
    /\ v.off = 0 /\ v.idx[1] = 0 /\ v.idx[2] = 0
    /\ pa.off = 0 /\ pa.pn % GiBPages = 0
use_huge(attr, v, pa, num_pages) ==
    /\ attr = "ReadWriteKernel1GiB"
    /\ v.off = 0 /\ v.idx[1] = 0 /\ v.idx[2] = 0
    /\ pa.off = 0 /\ pa.pn % GiBPages = 0
    /\ num_pages % GiBPages = 0

\* map, the 1 GiB branch after "get_or_alloc_next_level_table()?" gave g:
map_huge_from(g, v, pa, num_pages, attr) ==
    IF g.res # "Ok" THEN [t |-> g.t, res |-> g.res]
    ELSE map_huge(g.t, g.node, nth_level_table_index(v, 3), pa, 0,
                  num_pages \div GiBPages, attr)
\* map, the 4 KiB path after the walk for virt_start gave w:
map_pages_from(w, v, pa, num_pages, attr) ==
    IF w.res # "Ok" THEN [t |-> w.t, res |-> w.res]
    ELSE map_pages(w.t, w.node, v, pa, nth_level_table_index(v, 1), 0,
                   num_pages, attr)
\* PageTable::map.  The two assert!s panic.
map(T, v, pa, num_pages, attr) ==
    IF v.off % PAGE_SIZE # 0 THEN [t |-> T, res |-> "Panic"]
    ELSE IF pa.off % PAGE_SIZE # 0 THEN [t |-> T, res |-> "Panic"]
    ELSE IF use_huge(attr, v, pa, num_pages)
    THEN map_huge_from(get_or_alloc_next_level_table(
                           T, 0, nth_level_table_index(v, 4)),
                       v, pa, num_pages, attr)
    ELSE map_pages_from(descend(T, 0, v, 4), v, pa, num_pages, attr)

\* MSize: a size in bytes, kept as whole pages and the bytes beyond them.
MSize(pages, rem) == [pages |-> pages, rem |-> rem]
\* size.as_usize().div_ceil(PAGE_SIZE).
div_ceil(size) == size.pages + (IF size.rem > 0 THEN 1 ELSE 0)

\* PageTable::create_mapping.
create_mapping(T, v, pa, size, attr) == map(T, v, pa, div_ceil(size), attr)

\* duplicate_kernel: "if entry.is_present()".
copies_none(e) == FALSE
copies(e) == is_present(e)
\* PageTable::duplicate_kernel: the pml4 of the new table.
duplicate_kernel(T) ==
    [i \in {j \in DOMAIN T.pml4 : copies(T.pml4[j])} |-> T.pml4[i]]

\* ----------------------------------------------------------------- state
VARIABLES
    pc,            \* the instruction the CPU is at
    sp,            \* rsp: <<stack, depth>>
    regs,          \* the fifteen other general-purpose registers
    iflag,         \* rflags.IF
    cr3,           \* the paging root
    mem,           \* the contents of every stack
    tasks,         \* TASKS: Vec<Arc<SpinLock<Task>>>
    PID,           \* Task::new: the static PID counter
    current_task,  \* CPU_CONTEXT_BLOCK.current_task (a pid, or NoTask)
    ticks,         \* CPU_CONTEXT_BLOCK.ticks
    locks,         \* the locked flag of TASKS, current_task, LOCAL_APIC_TIMER
    timer,         \* LOCAL_APIC_TIMER and the local APIC behind it
    heap_next,     \* page tables handed out by the kernel heap so far
    loc,           \* the locals of switch
    spl,           \* the locals of spawn
    delivered,     \* timer interrupts delivered so far
    irqSince,      \* timer interrupts delivered since check_and_schedule
                   \* last called the scheduler (counted up to QUANTUM)
    preempts,      \* calls of the scheduler by check_and_schedule so far
                   \* (counted up to 2)
    pg,            \* the page table the mapping functions are applied to,
                   \* with their arguments and results
    ALLOCATOR,     \* the kernel heap: the LinerAllocator and what it returned
    spin,          \* a SpinLock and the contexts that take it
    cpu,           \* the descriptor tables and the segment registers
    memory_regions, \* the loader's MemoryRegionArray and the memory map it reads
    apic_timer,    \* LOCAL_APIC_TIMER with its count at full width
    prologue,      \* the processor between the register pushes and pops of
                   \* interrupt_handler_common
    loader         \* the loader's main and the firmware under it

vars == <<pc, sp, regs, iflag, cr3, mem, tasks, PID, current_task, ticks,
          locks, timer, heap_next, loc, spl, delivered, irqSince, preempts,
          pg, ALLOCATOR, spin, cpu, memory_regions, apic_timer, prologue,
          loader>>
\* The state of the kernel proper.
kvars == <<pc, sp, regs, iflag, cr3, mem, tasks, PID, current_task, ticks,
           locks, timer, heap_next, loc, spl, delivered, irqSince, preempts>>
\* The state of the parts that are followed on their own.
uvars == <<pg, ALLOCATOR, spin, cpu, memory_regions, apic_timer, prologue,
           loader>>
\* All but pg.
pg_rest == <<kvars, ALLOCATOR, spin, cpu, memory_regions, apic_timer, prologue, loader>>
\* All but ALLOCATOR.
alloc_rest == <<kvars, pg, spin, cpu, memory_regions, apic_timer, prologue, loader>>
\* All but spin.
spin_rest == <<kvars, pg, ALLOCATOR, cpu, memory_regions, apic_timer, prologue, loader>>
\* All but cpu.
cpu_rest == <<kvars, pg, ALLOCATOR, spin, memory_regions, apic_timer, prologue, loader>>
\* All but memory_regions.
regions_rest == <<kvars, pg, ALLOCATOR, spin, cpu, apic_timer, prologue, loader>>
\* The five parts above.
units == <<pg, ALLOCATOR, spin, cpu, memory_regions>>
\* All but apic_timer.
timer_rest == <<kvars, units, prologue, loader>>
\* All but prologue.
prologue_rest == <<kvars, units, apic_timer, loader>>
\* All but loader.
loader_rest == <<kvars, units, apic_timer, prologue>>

\* The size in bytes of a kernel stack (task.rs:19).
KERNEL_STACK_SIZE == 4096 * 4
\* kernel_stack = None.
NoStack == 0 - 1
\* Box::new(AlignedStack(..)) in spawn: the address, as a byte offset into
\* the kernel heap, of the stack of the task that will get this pid.  The
\* allocator never frees and hands out increasing addresses; between the
\* stacks of two spawns lie at least the first table of the duplicated
\* page table, and the closest such packing is taken.
Box_new_AlignedStack(pid) == pid * (KERNEL_STACK_SIZE + PAGE_SIZE)
\* <*mut u64>::add(count) and ::sub(count): the pointer moves by count
\* elements of eight bytes.
ptr_add(p, count) == p + 8 * count
ptr_sub(p, count) == p - 8 * count
\* push_stack: the address the value is written at, which is returned.
push_stack(rsp) == ptr_sub(rsp, 1)
\* setup_initial_call: stack_top = (as_ptr() as *mut u64).add(
\* KERNEL_STACK_SIZE), the address the saved stack of a task grows down from.
stack_top(kstack) == ptr_add(kstack, KERNEL_STACK_SIZE)
\* The byte address of position d (1 = the first word pushed) of the saved
\* stack of a task whose kernel stack was allocated at kstack.
address_of(kstack, d) == ptr_sub(stack_top(kstack), d)

\* Task::new: a task as the list holds it, inside its SpinLock.
TaskContextDefault ==
    [rbx |-> 0, rbp |-> 0, r12 |-> 0, r13 |-> 0, r14 |-> 0, r15 |-> 0,
     rsp |-> NullSp, rflags |-> FALSE]
NewTask(pid) ==
    [locked |-> FALSE, pid |-> pid, state |-> "Stopped", running |-> FALSE,
     context |-> TaskContextDefault, page_table |-> 0, kernel_stack |-> NoStack]

\* via: the entry the scheduler was called through, "switch" or "schedule".
LocDefault == [cur |-> NoTask, idx |-> 0, i |-> 0, start |-> 0,
               prev |-> NoTask, next |-> NoTask, via |-> "switch"]
\* live: spawn has been entered and has not returned yet.
SplDefault == [cur |-> NoTask, task |-> NoTask, pt |-> 0, live |-> FALSE,
               kstack |-> NoStack]

\* tasks.iter().position(..): the 0-based index of the task with this pid,
\* or Len(tasks) when there is none.
RECURSIVE PositionFrom(_, _, _)
PositionFrom(ts, pid, i) ==
    IF i > Len(ts) THEN Len(ts)
    ELSE IF ts[i].pid = pid THEN i - 1
    ELSE PositionFrom(ts, pid, i + 1)
Position(ts, pid) == PositionFrom(ts, pid, 1)
\* The task of the list with this pid (there is one).
TaskOf(pid) == tasks[Position(tasks, pid) + 1]

\* kernel_main up to "Paging initialized!": the allocator and init_paging
\* have run, and init_paging has loaded cr3 with the address of the pml4 of
\* the first page table taken as a number (paging.rs:389, no translation).
BootState ==
    /\ pc = "init_idt"
    /\ sp = <<StackOf(0), 0>>
    /\ regs = AllRegs(StackOf(0))
    /\ iflag = FALSE
    /\ cr3 = PageTableVA(1)
    /\ mem = [s \in 0..MaxTasks |-> <<>>]
    /\ tasks = <<>>
    /\ PID = 0
    /\ current_task = NoTask
    /\ ticks = 0
    /\ locks = [TASKS |-> FALSE, current_task |-> FALSE, timer |-> FALSE]
    /\ timer = [count |-> 0, armed |-> FALSE, in_service |-> FALSE]
    /\ heap_next = 1
    /\ loc = LocDefault
    /\ spl = SplDefault
    /\ delivered = 0
    /\ irqSince = 0
    /\ preempts = 0

\* No mapping function is being followed.
PgIdle == [pc |-> "idle"]
\* Nor any other part.
Idle == [pc |-> "idle"]

\* The five parts at rest.
UnitsIdle ==
    /\ pg = PgIdle /\ ALLOCATOR = Idle /\ spin = Idle /\ cpu = Idle
    /\ memory_regions = Idle

Init ==
    /\ BootState
    /\ pg = PgIdle
    /\ ALLOCATOR = Idle /\ spin = Idle /\ cpu = Idle /\ memory_regions = Idle
    /\ apic_timer = Idle /\ prologue = Idle /\ loader = Idle

\* --------------------------------------------------------------- helpers
\* "ret": pops the word at the stack pointer and jumps to it.  A word that
\* is no return address sends the CPU to an arbitrary place ("wild").
RetPc(c) == IF c.k = "ret" THEN c.lab ELSE "wild"
Top == mem[sp[1]][sp[2]]
Ret ==
    /\ pc' = RetPc(Top)
    /\ sp' = <<sp[1], sp[2] - 1>>
\* "call f": pushes the return address and jumps to f.
Call(f, back) ==
    /\ mem' = [mem EXCEPT ![sp[1]] = Put(@, sp[2] + 1, RetCell(back))]
    /\ sp' = <<sp[1], sp[2] + 1>>
    /\ pc' = f

\* The CPU has stopped for good: the hlt loop of interrupt_handler, the hlt
\* loop of the panic handler, or a jump to an arbitrary place.
Stopped == pc \in {"halt", "panic", "wild"}

\* The task list with the task of this pid given v as its field.
SetTask(ts, pid, field, v) ==
    [i \in 1..Len(ts) |->
        IF ts[i].pid = pid THEN [ts[i] EXCEPT ![field] = v] ELSE ts[i]]

\* switch: drop(prev_task_guard); drop(next_task_guard).
drop_prev_only(ts, prev, next) == SetTask(ts, prev, "locked", FALSE)
drop_guards(ts, prev, next) ==
    SetTask(SetTask(ts, prev, "locked", FALSE), next, "locked", FALSE)

\* x86::disable_interrupts: cli.  fl is rflags.IF before, the result is
\* rflags.IF after.
cli_missing(fl) == fl
disable_interrupts(fl) == FALSE
\* x86::enable_interrupts: sti.
enable_interrupts(fl) == TRUE

\* task::tick: ticks.fetch_add(1).
tick_twice(t) == t + 2
tick(t) == t + 1

\* switch: where the scan starts, (i + 1) % len for the current index i.
ScanStartAtCurrent(idx, len) == idx % len
ScanStart(idx, len) == (idx + 1) % len

\* switch: the test of the scan on the state of a task.
IsAnyState(st) == TRUE
IsRunnable(st) == st = "Runnable"

\* Vec::push.
push_front(ts, t) == <<t>> \o ts
push(ts, t) == Append(ts, t)

\* timer::notify_end_of_interrupt: the write to the EOI register ends the
\* interrupt in service.
eoi_missing(t) == t
notify_end_of_interrupt(t) == [t EXCEPT !.in_service = FALSE]

\* ------------------------------------------------------------------ boot
\* Idt::new: builds the table, lidt, then x86::enable_interrupts().
InitIdt ==
    /\ pc = "init_idt"
    /\ iflag' = enable_interrupts(iflag)
    /\ pc' = "init_timer"
    /\ UNCHANGED <<sp, regs, cr3, mem, tasks, PID, current_task, ticks, locks,
                   timer, heap_next, loc, spl, delivered, irqSince, preempts>>
    /\ UNCHANGED uvars

\* init_timer: LOCAL_APIC_TIMER.lock().init(), up to the write that starts
\* the periodic timer on vector 42.
InitTimer ==
    /\ pc = "init_timer"
    /\ ~locks.timer
    /\ locks' = [locks EXCEPT !.timer = TRUE]
    /\ timer' = [timer EXCEPT !.armed = TRUE]
    /\ pc' = "init_timer_unlock"
    /\ UNCHANGED <<sp, regs, iflag, cr3, mem, tasks, PID, current_task, ticks,
                   heap_next, loc, spl, delivered, irqSince, preempts>>
    /\ UNCHANGED uvars

\* init_timer: the guard of LOCAL_APIC_TIMER is dropped.
InitTimerUnlock ==
    /\ pc = "init_timer_unlock"
    /\ locks' = [locks EXCEPT !.timer = FALSE]
    /\ pc' = "main_cli"
    /\ UNCHANGED <<sp, regs, iflag, cr3, mem, tasks, PID, current_task, ticks,
                   timer, heap_next, loc, spl, delivered, irqSince, preempts>>
    /\ UNCHANGED uvars

\* kernel_main: x86::disable_interrupts() before task::init.
MainCli ==
    /\ pc = "main_cli"
    /\ iflag' = disable_interrupts(iflag)
    /\ pc' = "main_init"
    /\ UNCHANGED <<sp, regs, cr3, mem, tasks, PID, current_task, ticks, locks,
                   timer, heap_next, loc, spl, delivered, irqSince, preempts>>
    /\ UNCHANGED uvars

\* Task::new: PID.fetch_add(1, Ordering::Relaxed), the counter afterwards
\* (an AtomicU32; the model stays far below 2^32 tasks).
fetch_same(c) == c
fetch_add(c) == c + 1

\* task::init(pt): the idle task, Runnable and running, owning the page
\* table of init_paging, is pushed and published as the current task.
\* kernel_main goes on as the code of the idle task.
TaskInit ==
    /\ pc = "main_init"
    /\ ~locks.TASKS /\ ~locks.current_task
    /\ tasks' = push(tasks, [NewTask(PID) EXCEPT !.state = "Runnable",
                                                 !.running = TRUE,
                                                 !.page_table = 1])
    /\ PID' = fetch_add(PID)
    /\ current_task' = PID
    /\ pc' = "task"
    /\ UNCHANGED <<sp, regs, iflag, cr3, mem, ticks, locks, timer, heap_next,
                   loc, spl, delivered, irqSince, preempts>>
    /\ UNCHANGED uvars

\* kernel_main: x86::enable_interrupts() after the spawns.
MainSti ==
    /\ pc = "task"
    /\ sp[1] = StackOf(0)
    /\ ~iflag
    /\ iflag' = enable_interrupts(iflag)
    /\ UNCHANGED <<pc, sp, regs, cr3, mem, tasks, PID, current_task, ticks,
                   locks, timer, heap_next, loc, spl, delivered, irqSince, preempts>>
    /\ UNCHANGED uvars

\* ------------------------------------------------------------ interrupts
\* What the CPU and the entry stub of vector v do: the CPU moves to the top
\* of the interrupt stack, pushes the frame of the interrupted code (and,
\* for the vectors of WithErrorCode, an error code) and clears IF; the stub
\* pushes a dummy error code if the CPU pushed none, then the vector, and
\* jumps to interrupt_handler_common.
InterruptEntry(v) ==
    LET st1 == PushOn([m |-> mem[IstStack], d |-> 0],
                      HwCell(pc, iflag, sp, regs))
        st2 == PushOn(st1, WordCell(0))
        st3 == PushOn(st2, WordCell(v))
    IN /\ mem' = [mem EXCEPT ![IstStack] = st3.m]
       /\ sp' = <<IstStack, st3.d>>
       /\ iflag' = FALSE
       /\ pc' = "interrupt_handler_common"

\* The local APIC delivers the timer interrupt: IF is set, the timer runs
\* and its previous interrupt has been acknowledged.
TimerInterrupt ==
    /\ iflag
    /\ ~Stopped
    /\ timer.armed /\ ~timer.in_service
    /\ delivered < MaxTimerIrqs
    /\ InterruptEntry(VEC_TIMER)
    /\ timer' = [timer EXCEPT !.in_service = TRUE]
    /\ delivered' = delivered + 1
    /\ irqSince' = IF irqSince < QUANTUM THEN irqSince + 1 ELSE irqSince
    /\ UNCHANGED <<regs, cr3, tasks, PID, current_task, ticks, locks,
                   heap_next, loc, spl, preempts>>
    /\ UNCHANGED uvars

\* Task code executes int3.
Breakpoint ==
    /\ pc = "task"
    /\ InterruptEntry(VEC_BREAKPOINT)
    /\ UNCHANGED <<regs, cr3, tasks, PID, current_task, ticks, locks, timer,
                   heap_next, loc, spl, delivered, irqSince, preempts>>
    /\ UNCHANGED uvars

\* Task code faults on one of the vectors that have an entry stub.
Fault ==
    /\ pc = "task"
    /\ \E v \in {VEC_INVALID_OPCODE, VEC_GENERAL_PROTECTION, VEC_PAGE_FAULT} :
           InterruptEntry(v)
    /\ UNCHANGED <<regs, cr3, tasks, PID, current_task, ticks, locks, timer,
                   heap_next, loc, spl, delivered, irqSince, preempts>>
    /\ UNCHANGED uvars

\* interrupt_handler_common up to "call interrupt_handler": the sixteen
\* pushes, the frame address in rdi, the saved stack pointer, the call.
SaveRegisters ==
    /\ pc = "interrupt_handler_common"
    /\ LET st == PushRegs([m |-> mem[sp[1]], d |-> sp[2]], 1, regs, sp[1])
           fr == <<sp[1], st.d>>
           st2 == PushOn(PushOn(st, SpCell(fr)), RetCell("restore_registers"))
       IN /\ mem' = [mem EXCEPT ![sp[1]] = st2.m]
          /\ sp' = <<sp[1], st2.d>>
    /\ pc' = "interrupt_handler"
    /\ UNCHANGED <<regs, iflag, cr3, tasks, PID, current_task, ticks, locks,
                   timer, heap_next, loc, spl, delivered, irqSince, preempts>>
    /\ UNCHANGED uvars

\* stack_frame.vector, read through the frame address in rdi: the frame
\* starts two words above the saved stack pointer.
FrameVector == mem[sp[1]][sp[2] - 18].n

\* interrupt_handler's match on stack_frame.vector: the arms that end in
\* "return" are those of vectors 3 and 42; every other arm falls through to
\* the "loop { hlt }" that ends the function.
handler_returns_after_fault(v) ==
    v \in {VEC_BREAKPOINT, VEC_TIMER, VEC_PAGE_FAULT}
handler_returns(v) == v \in {VEC_BREAKPOINT, VEC_TIMER}

\* interrupt_handler, vector 3: logs and returns.
HandleBreakpoint ==
    /\ pc = "interrupt_handler"
    /\ FrameVector # VEC_TIMER
    /\ handler_returns(FrameVector)
    /\ regs' = Clobber(regs)
    /\ Ret
    /\ UNCHANGED <<iflag, cr3, mem, tasks, PID, current_task, ticks, locks,
                   timer, heap_next, loc, spl, delivered, irqSince, preempts>>
    /\ UNCHANGED uvars

\* interrupt_handler, vectors 6, 13, 14 and every other one but 3 and 42:
\* logs, then "loop { hlt }".
HandleFatal ==
    /\ pc = "interrupt_handler"
    /\ ~handler_returns(FrameVector)
    /\ pc' = "halt"
    /\ UNCHANGED <<sp, regs, iflag, cr3, mem, tasks, PID, current_task, ticks,
                   locks, timer, heap_next, loc, spl, delivered, irqSince, preempts>>
    /\ UNCHANGED uvars

\* The count is a u32, kept as two limbs of 16 bits, the lower first.
u32(hi, lo) == <<lo, hi>>
u32_of(n) == u32(n \div 2 ^ 16, n % 2 ^ 16)
int_of(w) == w[2] * 2 ^ 16 + w[1]
U32_MAX == u32(2 ^ 16 - 1, 2 ^ 16 - 1)
\* "self.count += 1" modulo 2^32.
u32_add_1(w) ==
    IF w[1] + 1 < 2 ^ 16 THEN u32(w[2], w[1] + 1)
    ELSE u32((w[2] + 1) % 2 ^ 16, 0)
\* "if self.count == 0 { self.count = 1; }".
skip_zero(w) == IF w = u32(0, 0) THEN u32(0, 1) ELSE w
\* LocalApicTimer::increment_count.  "+=" is a plain addition: at 2^32 - 1
\* the build with overflow checks panics, the build without them wraps.
LocalApicTimer_increment_count(count, checks) ==
    IF checks /\ count = U32_MAX THEN [res |-> "Panic", count |-> count]
    ELSE [res |-> "Ok", count |-> skip_zero(u32_add_1(count))]
\* ... on the small counts of the kernel's runs here.
increment_count(c) ==
    int_of(LocalApicTimer_increment_count(u32_of(c), FALSE).count)

\* interrupt_handler, vector 42: timer::increment_count() under the lock
\* of LOCAL_APIC_TIMER (a held lock is spun on).
HandleTimerCount ==
    /\ pc = "interrupt_handler"
    /\ FrameVector = VEC_TIMER
    /\ ~locks.timer
    /\ timer' = [timer EXCEPT !.count = increment_count(@)]
    /\ pc' = "notify_end_of_interrupt"
    /\ UNCHANGED <<sp, regs, iflag, cr3, mem, tasks, PID, current_task, ticks,
                   locks, heap_next, loc, spl, delivered, irqSince, preempts>>
    /\ UNCHANGED uvars

\* timer::notify_end_of_interrupt(): the write to the EOI register.
HandleTimerEoi ==
    /\ pc = "notify_end_of_interrupt"
    /\ ~locks.timer
    /\ timer' = notify_end_of_interrupt(timer)
    /\ pc' = "tick"
    /\ UNCHANGED <<sp, regs, iflag, cr3, mem, tasks, PID, current_task, ticks,
                   locks, heap_next, loc, spl, delivered, irqSince, preempts>>
    /\ UNCHANGED uvars

\* task::tick(), then the return of interrupt_handler.
HandleTimerTick ==
    /\ pc = "tick"
    /\ ticks' = tick(ticks)
    /\ regs' = Clobber(regs)
    /\ Ret
    /\ UNCHANGED <<iflag, cr3, mem, tasks, PID, current_task, locks, timer,
                   heap_next, loc, spl, delivered, irqSince, preempts>>
    /\ UNCHANGED uvars

\* interrupt_handler_common after the call: "mov rsp, [rsp + 8]", the
\* sixteen pops, "add rsp, 0x10", "call check_and_schedule".
RestoreRegisters ==
    /\ pc = "restore_registers"
    /\ LET c == Top
       IN IF c.k # "sp"
          THEN /\ pc' = "wild"
               /\ UNCHANGED <<sp, regs, mem>>
          ELSE LET acc == PopRegs([m |-> mem[sp[1]], d |-> c.s[2],
                                   rf |-> regs, ok |-> TRUE], 1)
                   d2 == acc.d - 2
               IN IF ~acc.ok
                  THEN /\ pc' = "wild"
                       /\ UNCHANGED <<sp, regs, mem>>
                  ELSE /\ regs' = acc.rf
                       /\ mem' = [mem EXCEPT
                                    ![sp[1]] = Put(@, d2 + 1, RetCell("iretq"))]
                       /\ sp' = <<sp[1], d2 + 1>>
                       /\ pc' = "check_and_schedule"
    /\ UNCHANGED <<iflag, cr3, tasks, PID, current_task, ticks, locks, timer,
                   heap_next, loc, spl, delivered, irqSince, preempts>>
    /\ UNCHANGED uvars

\* check_and_schedule, ticks >= 3: calls task::schedule().
CheckSchedule ==
    /\ pc = "check_and_schedule"
    /\ ticks >= QUANTUM
    /\ Call("schedule", "check_and_schedule_ret")
    /\ irqSince' = 0
    /\ preempts' = IF preempts < 2 THEN preempts + 1 ELSE preempts
    /\ UNCHANGED <<regs, iflag, cr3, tasks, PID, current_task, ticks, locks,
                   timer, heap_next, loc, spl, delivered>>
    /\ UNCHANGED uvars

\* check_and_schedule, ticks < 3: returns.  The compiled function may or
\* may not have used the scratch registers.
CheckSkip ==
    /\ pc = "check_and_schedule"
    /\ ticks < QUANTUM
    /\ regs' \in {regs, Clobber(regs)}
    /\ Ret
    /\ UNCHANGED <<iflag, cr3, mem, tasks, PID, current_task, ticks, locks,
                   timer, heap_next, loc, spl, delivered, irqSince, preempts>>
    /\ UNCHANGED uvars

\* check_and_schedule returns after the scheduler has.
CheckReturn ==
    /\ pc = "check_and_schedule_ret"
    /\ Ret
    /\ UNCHANGED <<regs, iflag, cr3, mem, tasks, PID, current_task, ticks,
                   locks, timer, heap_next, loc, spl, delivered, irqSince, preempts>>
    /\ UNCHANGED uvars

\* The instructions of spawn at which the model can be interrupted.
SpawnPcs == {"spawn_current", "spawn_dup_lock", "spawn_dup", "spawn_push_lock",
             "spawn_push", "spawn_task_lock", "spawn_setup",
             "spawn_page_table"}

\* iretq: pops rip, rflags and rsp of the interrupted code.  A frame that
\* leads back into a call of spawn that has returned since (the frame of an
\* earlier interrupt, still on the interrupt stack) resumes a function whose
\* locals are gone: an arbitrary place.
Iretq ==
    /\ pc = "iretq"
    /\ LET c == Top
       IN IF c.k = "hw"
          THEN /\ pc' = IF c.lab \in SpawnPcs /\ ~spl.live THEN "wild"
                        ELSE c.lab
               /\ iflag' = c.fl
               /\ sp' = c.s
          ELSE /\ pc' = "wild"
               /\ UNCHANGED <<sp, iflag>>
    /\ UNCHANGED <<regs, cr3, mem, tasks, PID, current_task, ticks, locks,
                   timer, heap_next, loc, spl, delivered, irqSince, preempts>>
    /\ UNCHANGED uvars

\* Task code raises a vector that has no entry stub: the gate leads to
\* interrupt_handler_unimplemented, which panics (the panic handler clears
\* IF and halts).
Unimplemented ==
    /\ pc = "task"
    /\ pc' = "panic"
    /\ iflag' = FALSE
    /\ sp' = <<IstStack, 1>>
    /\ mem' = [mem EXCEPT ![IstStack] = Put(@, 1, HwCell(pc, iflag, sp, regs))]
    /\ UNCHANGED <<regs, cr3, tasks, PID, current_task, ticks, locks, timer,
                   heap_next, loc, spl, delivered, irqSince, preempts>>
    /\ UNCHANGED uvars

\* ---------------------------------------------------------------- switch
\* Task code calls switch() itself.
CallSwitch ==
    /\ pc = "task"
    /\ Call("switch", "task")
    /\ UNCHANGED <<regs, iflag, cr3, tasks, PID, current_task, ticks, locks,
                   timer, heap_next, loc, spl, delivered, irqSince, preempts>>
    /\ UNCHANGED uvars

\* switch: x86::disable_interrupts().
SwitchCli ==
    /\ pc = "switch"
    /\ iflag' = disable_interrupts(iflag)
    /\ loc' = [LocDefault EXCEPT !.via = "switch"]
    /\ pc' = "switch_ticks"
    /\ UNCHANGED <<sp, regs, cr3, mem, tasks, PID, current_task, ticks, locks,
                   timer, heap_next, spl, delivered, irqSince, preempts>>
    /\ UNCHANGED uvars

\* schedule, the scheduler as check_and_schedule calls it: the steps of
\* switch without the cli / sti pair, the interrupt flag being the one the
\* interrupt gate left (clear) and the one iretq restores.
ScheduleEnter ==
    /\ pc = "schedule"
    /\ loc' = [LocDefault EXCEPT !.via = "schedule"]
    /\ pc' = "switch_ticks"
    /\ UNCHANGED <<sp, regs, iflag, cr3, mem, tasks, PID, current_task, ticks,
                   locks, timer, heap_next, spl, delivered, irqSince,
                   preempts>>
    /\ UNCHANGED uvars

\* switch: percpu.ticks.store(0).
SwitchTicks ==
    /\ pc = "switch_ticks"
    /\ ticks' = 0
    /\ pc' = "switch_tasks"
    /\ UNCHANGED <<sp, regs, iflag, cr3, mem, tasks, PID, current_task, locks,
                   timer, heap_next, loc, spl, delivered, irqSince, preempts>>
    /\ UNCHANGED uvars

\* switch: let tasks = tasks(), the lock of TASKS.
SwitchTasks ==
    /\ pc = "switch_tasks"
    /\ ~locks.TASKS
    /\ locks' = [locks EXCEPT !.TASKS = TRUE]
    /\ pc' = "switch_current"
    /\ UNCHANGED <<sp, regs, iflag, cr3, mem, tasks, PID, current_task, ticks,
                   timer, heap_next, loc, spl, delivered, irqSince, preempts>>
    /\ UNCHANGED uvars

\* switch: current_task(), which locks current_task, unwraps it (a panic
\* on None) and clones it.
SwitchCurrent ==
    /\ pc = "switch_current"
    /\ ~locks.current_task
    /\ IF current_task = NoTask
       THEN /\ pc' = "panic"
            /\ loc' = loc
       ELSE /\ pc' = "switch_position"
            /\ loc' = [loc EXCEPT !.cur = current_task]
    /\ UNCHANGED <<sp, regs, iflag, cr3, mem, tasks, PID, current_task, ticks,
                   locks, timer, heap_next, spl, delivered, irqSince, preempts>>
    /\ UNCHANGED uvars

\* switch: current_index, and where the scan starts.
SwitchPosition ==
    /\ pc = "switch_position"
    /\ LET len == Len(tasks)
           idx == Position(tasks, loc.cur)
           first == IF idx < len THEN ScanStart(idx, len) ELSE 0
       IN IF len = 0
          THEN /\ loc' = [loc EXCEPT !.idx = idx]
               /\ pc' = "switch_selected"
          ELSE /\ loc' = [loc EXCEPT !.idx = idx, !.i = first, !.start = first]
               /\ pc' = "switch_scan"
    /\ UNCHANGED <<sp, regs, iflag, cr3, mem, tasks, PID, current_task, ticks,
                   locks, timer, heap_next, spl, delivered, irqSince, preempts>>
    /\ UNCHANGED uvars

\* switch: task.lock().state: the lock of the task is taken before its
\* state is read; a held lock is spun on.
lock_skipped(t) == TRUE
lock_taken(t) == ~t.locked

\* switch: one turn of the loop: task i is locked, its state read, the
\* lock dropped.
SwitchScan ==
    /\ pc = "switch_scan"
    /\ LET len == Len(tasks)
           t == tasks[loc.i + 1]
           nxt == (loc.i + 1) % len
       IN /\ lock_taken(t)
          /\ IF IsRunnable(t.state)
             THEN /\ loc' = [loc EXCEPT !.next = t.pid]
                  /\ pc' = "switch_selected"
             ELSE /\ loc' = [loc EXCEPT !.i = nxt]
                  /\ pc' = IF nxt = loc.start THEN "switch_selected"
                           ELSE "switch_scan"
    /\ UNCHANGED <<sp, regs, iflag, cr3, mem, tasks, PID, current_task, ticks,
                   locks, timer, heap_next, spl, delivered, irqSince, preempts>>
    /\ UNCHANGED uvars

\* switch: the end of the first block: the pair (prev, next), or
\* (None, None); the guard of TASKS is dropped.  With (None, None) the
\* "if let" is skipped.
SwitchSelected ==
    /\ pc = "switch_selected"
    /\ locks' = [locks EXCEPT !.TASKS = FALSE]
    /\ IF loc.next # NoTask
       THEN /\ loc' = [loc EXCEPT !.prev = loc.cur]
            /\ pc' = "switch_lock_prev"
       ELSE /\ loc' = loc
            /\ pc' = IF loc.via = "switch" THEN "switch_sti" ELSE "switch_ret"
    /\ UNCHANGED <<sp, regs, iflag, cr3, mem, tasks, PID, current_task, ticks,
                   timer, heap_next, spl, delivered, irqSince, preempts>>
    /\ UNCHANGED uvars

\* switch: prev_task_lock.lock().
SwitchLockPrev ==
    /\ pc = "switch_lock_prev"
    /\ ~TaskOf(loc.prev).locked
    /\ tasks' = SetTask(tasks, loc.prev, "locked", TRUE)
    /\ pc' = "switch_lock_next"
    /\ UNCHANGED <<sp, regs, iflag, cr3, mem, PID, current_task, ticks, locks,
                   timer, heap_next, loc, spl, delivered, irqSince, preempts>>
    /\ UNCHANGED uvars

\* switch: next_task_lock.lock().
SwitchLockNext ==
    /\ pc = "switch_lock_next"
    /\ ~TaskOf(loc.next).locked
    /\ tasks' = SetTask(tasks, loc.next, "locked", TRUE)
    /\ pc' = "switch_publish"
    /\ UNCHANGED <<sp, regs, iflag, cr3, mem, PID, current_task, ticks, locks,
                   timer, heap_next, loc, spl, delivered, irqSince, preempts>>
    /\ UNCHANGED uvars

\* switch: *percpu.current_task.lock() = Some(next).
SwitchPublish ==
    /\ pc = "switch_publish"
    /\ ~locks.current_task
    /\ current_task' = loc.next
    /\ pc' = "switch_running"
    /\ UNCHANGED <<sp, regs, iflag, cr3, mem, tasks, PID, ticks, locks, timer,
                   heap_next, loc, spl, delivered, irqSince, preempts>>
    /\ UNCHANGED uvars

\* switch: prev.running = false; next.running = true.
mark_next_only(ts, prev, next) == SetTask(ts, next, "running", TRUE)
mark_running(ts, prev, next) ==
    SetTask(SetTask(ts, prev, "running", FALSE), next, "running", TRUE)

SwitchRunning ==
    /\ pc = "switch_running"
    /\ tasks' = mark_running(tasks, loc.prev, loc.next)
    /\ pc' = "switch_cr3"
    /\ UNCHANGED <<sp, regs, iflag, cr3, mem, PID, current_task, ticks, locks,
                   timer, heap_next, loc, spl, delivered, irqSince, preempts>>
    /\ UNCHANGED uvars

\* switch: write_cr3(virt_to_phys(address of next's page table)); the
\* unwrap panics on a task without a page table.
SwitchCr3 ==
    /\ pc = "switch_cr3"
    /\ IF TaskOf(loc.next).page_table = 0
       THEN /\ pc' = "panic"
            /\ cr3' = cr3
       ELSE /\ cr3' = virt_to_phys(PageTableVA(TaskOf(loc.next).page_table))
            /\ pc' = "switch_drop"
    /\ UNCHANGED <<sp, regs, iflag, mem, tasks, PID, current_task, ticks,
                   locks, timer, heap_next, loc, spl, delivered, irqSince, preempts>>
    /\ UNCHANGED uvars

\* switch: drop(prev_task_guard); drop(next_task_guard); then the call of
\* switch_inner, which returns to the last statement of switch (of
\* schedule: to its return).
SwitchDrop ==
    /\ pc = "switch_drop"
    /\ tasks' = drop_guards(tasks, loc.prev, loc.next)
    /\ Call("switch_inner",
            IF loc.via = "switch" THEN "switch_sti" ELSE "switch_ret")
    /\ UNCHANGED <<regs, iflag, cr3, PID, current_task, ticks, locks, timer,
                   heap_next, loc, spl, delivered, irqSince, preempts>>
    /\ UNCHANGED uvars

\* switch_inner(current, next): pushes the address of its label 2, saves
\* rflags, the callee-saved registers and rsp in *current, loads them from
\* *next (rflags through rax) and returns on the stack of next.
SwitchInner ==
    /\ pc = "switch_inner"
    /\ LET m1 == [mem EXCEPT ![sp[1]] = Put(@, sp[2] + 1, RetCell("switch_inner_2"))]
           saved == [rbx |-> regs["rbx"], rbp |-> regs["rbp"],
                     r12 |-> regs["r12"], r13 |-> regs["r13"],
                     r14 |-> regs["r14"], r15 |-> regs["r15"],
                     rsp |-> <<sp[1], sp[2] + 1>>, rflags |-> iflag]
           ts1 == SetTask(tasks, loc.prev, "context", saved)
           nx == ts1[Position(ts1, loc.next) + 1].context
           to == nx.rsp
       IN /\ tasks' = ts1
          /\ mem' = m1
          /\ regs' = [n \in Gpr |-> IF n \in CalleeSaved THEN nx[n] ELSE 0]
          /\ iflag' = nx.rflags
          /\ IF to[1] \in DOMAIN m1 /\ to[2] >= 1 /\ to[2] <= Len(m1[to[1]])
             THEN /\ pc' = RetPc(m1[to[1]][to[2]])
                  /\ sp' = <<to[1], to[2] - 1>>
             ELSE /\ pc' = "wild"
                  /\ sp' = to
    /\ loc' = LocDefault
    /\ UNCHANGED <<cr3, PID, current_task, ticks, locks, timer, heap_next,
                   spl, delivered, irqSince, preempts>>
    /\ UNCHANGED uvars

\* switch_inner, label 2: "ret", back into switch.
SwitchInnerResume ==
    /\ pc = "switch_inner_2"
    /\ Ret
    /\ UNCHANGED <<regs, iflag, cr3, mem, tasks, PID, current_task, ticks,
                   locks, timer, heap_next, loc, spl, delivered, irqSince, preempts>>
    /\ UNCHANGED uvars

\* switch: x86::enable_interrupts().
SwitchSti ==
    /\ pc = "switch_sti"
    /\ iflag' = enable_interrupts(iflag)
    /\ pc' = "switch_ret"
    /\ UNCHANGED <<sp, regs, cr3, mem, tasks, PID, current_task, ticks, locks,
                   timer, heap_next, loc, spl, delivered, irqSince, preempts>>
    /\ UNCHANGED uvars

\* switch returns to its caller.
SwitchReturn ==
    /\ pc = "switch_ret"
    /\ regs' = Clobber(regs)
    /\ Ret
    /\ UNCHANGED <<iflag, cr3, mem, tasks, PID, current_task, ticks, locks,
                   timer, heap_next, loc, spl, delivered, irqSince, preempts>>
    /\ UNCHANGED uvars

\* The first instruction of a task's function, reached by the "ret" of
\* switch_inner: from here on the registers hold the task's own values.
TaskEntry ==
    /\ pc = "entry"
    /\ regs' = AllRegs(sp[1])
    /\ pc' = "task"
    /\ UNCHANGED <<sp, iflag, cr3, mem, tasks, PID, current_task, ticks, locks,
                   timer, heap_next, loc, spl, delivered, irqSince, preempts>>
    /\ UNCHANGED uvars

\* ----------------------------------------------------------------- spawn
\* spawn is called by the code of the idle task (task.rs:268).  The kernel
\* stack is allocated (Box::new, kept in kstack), then current_task() takes the lock of current_task.
SpawnStart ==
    /\ pc = "task"
    /\ sp[1] = StackOf(0)
    /\ PID < MaxTasks
    /\ ~locks.current_task
    /\ locks' = [locks EXCEPT !.current_task = TRUE]
    /\ spl' = [SplDefault EXCEPT !.live = TRUE,
                                 !.kstack = Box_new_AlignedStack(PID)]
    /\ pc' = "spawn_current"
    /\ UNCHANGED <<sp, regs, iflag, cr3, mem, tasks, PID, current_task, ticks,
                   timer, heap_next, loc, delivered, irqSince, preempts>>
    /\ UNCHANGED uvars

\* spawn: current_task() clones the current task and drops the lock.
SpawnCurrent ==
    /\ pc = "spawn_current"
    /\ locks' = [locks EXCEPT !.current_task = FALSE]
    /\ IF current_task = NoTask
       THEN /\ pc' = "panic"
            /\ spl' = spl
       ELSE /\ pc' = "spawn_dup_lock"
            /\ spl' = [spl EXCEPT !.cur = current_task]
    /\ UNCHANGED <<sp, regs, iflag, cr3, mem, tasks, PID, current_task, ticks,
                   timer, heap_next, loc, delivered, irqSince, preempts>>
    /\ UNCHANGED uvars

\* spawn: current_task().lock(), the lock of the current task.
SpawnDupLock ==
    /\ pc = "spawn_dup_lock"
    /\ ~TaskOf(spl.cur).locked
    /\ tasks' = SetTask(tasks, spl.cur, "locked", TRUE)
    /\ pc' = "spawn_dup"
    /\ UNCHANGED <<sp, regs, iflag, cr3, mem, PID, current_task, ticks, locks,
                   timer, heap_next, loc, spl, delivered, irqSince, preempts>>
    /\ UNCHANGED uvars

\* spawn: PageTable::duplicate_kernel of the current task's page table (a
\* new table from the heap), the lock dropped, then Task::new, which takes
\* the next pid.
SpawnDup ==
    /\ pc = "spawn_dup"
    /\ tasks' = SetTask(tasks, spl.cur, "locked", FALSE)
    /\ IF TaskOf(spl.cur).page_table = 0
       THEN /\ pc' = "panic"
            /\ UNCHANGED <<heap_next, PID, spl>>
       ELSE /\ heap_next' = heap_next + 1
            /\ PID' = fetch_add(PID)
            /\ spl' = [spl EXCEPT !.pt = heap_next + 1, !.task = PID]
            /\ pc' = "spawn_push_lock"
    /\ UNCHANGED <<sp, regs, iflag, cr3, mem, current_task, ticks, locks,
                   timer, loc, delivered, irqSince, preempts>>
    /\ UNCHANGED uvars

\* spawn: TASKS.lock().
SpawnPushLock ==
    /\ pc = "spawn_push_lock"
    /\ ~locks.TASKS
    /\ locks' = [locks EXCEPT !.TASKS = TRUE]
    /\ pc' = "spawn_push"
    /\ UNCHANGED <<sp, regs, iflag, cr3, mem, tasks, PID, current_task, ticks,
                   timer, heap_next, loc, spl, delivered, irqSince, preempts>>
    /\ UNCHANGED uvars

\* spawn: .push(task_lock.clone()), the guard of TASKS dropped.
SpawnPush ==
    /\ pc = "spawn_push"
    /\ tasks' = push(tasks, NewTask(spl.task))
    /\ locks' = [locks EXCEPT !.TASKS = FALSE]
    /\ pc' = "spawn_task_lock"
    /\ UNCHANGED <<sp, regs, iflag, cr3, mem, PID, current_task, ticks, timer,
                   heap_next, loc, spl, delivered, irqSince, preempts>>
    /\ UNCHANGED uvars

\* spawn: let mut task = task_lock.lock().
SpawnTaskLock ==
    /\ pc = "spawn_task_lock"
    /\ ~TaskOf(spl.task).locked
    /\ tasks' = SetTask(tasks, spl.task, "locked", TRUE)
    /\ pc' = "spawn_setup"
    /\ UNCHANGED <<sp, regs, iflag, cr3, mem, PID, current_task, ticks, locks,
                   timer, heap_next, loc, spl, delivered, irqSince, preempts>>
    /\ UNCHANGED uvars

\* TaskContext::setup_initial_call: the address of func is pushed on the
\* new stack, rsp points at it, rflags = 0x202 (IF set).
setup_initial_call(ctx, stk) ==
    [ctx EXCEPT !.rsp = <<stk, 1>>, !.rflags = TRUE]

\* spawn: setup_initial_call, kernel_stack = Some(kstack), state = Runnable.
SpawnSetup ==
    /\ pc = "spawn_setup"
    /\ LET t == TaskOf(spl.task)
           stk == StackOf(spl.task)
       IN /\ mem' = [mem EXCEPT ![stk] = Put(<<>>, 1, RetCell("entry"))]
          /\ tasks' = SetTask(SetTask(SetTask(tasks, spl.task, "context",
                                  setup_initial_call(t.context, stk)),
                              spl.task, "kernel_stack", spl.kstack),
                          spl.task, "state", "Runnable")
    /\ pc' = "spawn_page_table"
    /\ UNCHANGED <<sp, regs, iflag, cr3, PID, current_task, ticks, locks,
                   timer, heap_next, loc, spl, delivered, irqSince, preempts>>
    /\ UNCHANGED uvars

\* spawn: page_table.replace(Some(page_table)), the log line, and the
\* guard of the new task dropped.
SpawnPageTable ==
    /\ pc = "spawn_page_table"
    /\ tasks' = SetTask(SetTask(tasks, spl.task, "page_table", spl.pt),
                        spl.task, "locked", FALSE)
    /\ spl' = SplDefault
    /\ pc' = "task"
    /\ UNCHANGED <<sp, regs, iflag, cr3, mem, PID, current_task, ticks, locks,
                   timer, heap_next, loc, delivered, irqSince, preempts>>
    /\ UNCHANGED uvars

\* ------------------------------------------------------------------ spec
Next ==
    \/ InitIdt \/ InitTimer \/ InitTimerUnlock \/ MainCli \/ TaskInit
    \/ MainSti
    \/ TimerInterrupt \/ Breakpoint \/ Fault \/ Unimplemented
    \/ SaveRegisters \/ HandleBreakpoint \/ HandleFatal
    \/ HandleTimerCount \/ HandleTimerEoi \/ HandleTimerTick
    \/ RestoreRegisters \/ CheckSchedule \/ CheckSkip \/ CheckReturn \/ Iretq
    \/ CallSwitch \/ SwitchCli \/ ScheduleEnter \/ SwitchTicks \/ SwitchTasks \/ SwitchCurrent
    \/ SwitchPosition \/ SwitchScan \/ SwitchSelected \/ SwitchLockPrev
    \/ SwitchLockNext \/ SwitchPublish \/ SwitchRunning \/ SwitchCr3
    \/ SwitchDrop \/ SwitchInner \/ SwitchInnerResume \/ SwitchSti
    \/ SwitchReturn \/ TaskEntry
    \/ SpawnStart \/ SpawnCurrent \/ SpawnDupLock \/ SpawnDup \/ SpawnPushLock
    \/ SpawnPush \/ SpawnTaskLock \/ SpawnSetup \/ SpawnPageTable

Spec == Init /\ [][Next]_vars

\* ------------------------------------------- the mapping functions at work
\* A second specification: one page table, empty to begin with, to which
\* create_mapping is applied once, then a second time, and which is then
\* duplicated.  Its arguments are drawn, at Init, from the sets below.

\* Most pages of a range that is mapped page by page.
MaxPages == 3

\* Where the heap may lie: at its physical addresses (what the comment in
\* alloc_next_level_table assumes) or in the direct mapping (the heap_base
\* the loader passes to kernel_entry).
HeapBases == {"identity", "direct"}

\* virt_start: the first page of a table, the last page of a page table, of
\* a page directory, of a PDPT and of the address space, the last GiB of a
\* PDPT, the start of the direct mapping, and 0x1000_0007.
VirtStarts ==
    {VAddr(0, 0, 0, 0, 0),
     VAddr(0, 0, 0, ENTRIES - 1, 0),
     VAddr(0, 0, ENTRIES - 1, ENTRIES - 1, 0),
     VAddr(0, ENTRIES - 1, ENTRIES - 1, ENTRIES - 1, 0),
     VAddr(ENTRIES - 1, ENTRIES - 1, ENTRIES - 1, ENTRIES - 1, 0),
     VAddr(0, ENTRIES - 1, 0, 0, 0),
     VAddr(273, 0, 0, 0, 0),
     VAddr(0, 0, 128, 0, 7)}

\* phys_start: page-aligned, GiB-aligned, not aligned, and with bit 63 set.
PhysStarts ==
    {Addr(FALSE, FALSE, 0, 0),
     Addr(FALSE, FALSE, 5, 0),
     Addr(FALSE, FALSE, GiBPages, 0),
     Addr(FALSE, FALSE, 5, 7),
     Addr(TRUE, FALSE, 0, 0)}

\* size: nothing, one byte, one page, one page and a byte, MaxPages pages,
\* one GiB and two.
Sizes ==
    {MSize(0, 0), MSize(0, 1), MSize(1, 0), MSize(1, 1), MSize(MaxPages, 0),
     MSize(GiBPages, 0), MSize(2 * GiBPages, 0)}

Attrs == {"NotPresent", "ReadExecuteKernel", "ReadWriteKernel",
          "ReadWriteKernel1GiB"}

\* A region aligned to 1 GiB on both sides, of whole GiB, with the 1 GiB
\* attribute.
GiBRegion(a) ==
    /\ a.attr = "ReadWriteKernel1GiB"
    /\ a.virt.off = 0 /\ a.virt.idx[1] = 0 /\ a.virt.idx[2] = 0
    /\ a.phys.off = 0 /\ a.phys.pn % GiBPages = 0
    /\ a.size.rem = 0 /\ a.size.pages % GiBPages = 0

\* The arguments of the first call: ranges of more than MaxPages pages only
\* where they are GiB regions.
Args ==
    {a \in [virt : VirtStarts, phys : PhysStarts, size : Sizes, attr : Attrs] :
        div_ceil(a.size) <= MaxPages \/ GiBRegion(a)}

\* The arguments of the second call: those of the first again, or one
\* 4 KiB page at the same addresses.
SecondArgs(a) ==
    {a, [a EXCEPT !.size = MSize(1, 0), !.attr = "ReadWriteKernel"]}

\* What the build can do where the code has undefined behaviour (a write
\* through a pointer to memory that holds no node): fault, or go on with
\* memory corrupted.
Outcomes(res) == IF res = "UB" THEN {"Fault", "Wild"} ELSE {res}
\* The call has returned to its caller.
Returned(res) == res \in {"Ok", "Err"}

PagingInit ==
    /\ BootState
    /\ ALLOCATOR = Idle /\ spin = Idle /\ cpu = Idle /\ memory_regions = Idle
    /\ apic_timer = Idle /\ prologue = Idle /\ loader = Idle
    /\ pg \in {[pc |-> "new", arg |-> a, arg2 |-> a, arg3 |-> a,
                pt |-> PageTable_new(h), old |-> PageTable_new(h),
                res |-> "None", res1 |-> "None", dup |-> EmptyNode,
                through |-> "none",
                set |-> [e |-> ZeroEntry, pa |-> a.phys, attr |-> a.attr,
                         res |-> "None", after |-> ZeroEntry]] :
               a \in Args, h \in HeapBases}

\* create_mapping on the empty table.
CreateMapping ==
    /\ pg.pc = "new"
    /\ LET m == create_mapping(pg.pt, pg.arg.virt, pg.arg.phys, pg.arg.size,
                               pg.arg.attr)
       IN \E out \in Outcomes(m.res) :
              pg' = [pg EXCEPT !.pc = "mapped", !.old = pg.pt, !.pt = m.t,
                               !.res = out, !.res1 = out]
    /\ UNCHANGED pg_rest

\* create_mapping on the table the first call has left.
CreateMappingAgain ==
    /\ pg.pc = "mapped"
    /\ Returned(pg.res)
    /\ \E a2 \in SecondArgs(pg.arg) :
           LET m == create_mapping(pg.pt, a2.virt, a2.phys, a2.size, a2.attr)
           IN \E out \in Outcomes(m.res) :
                  pg' = [pg EXCEPT !.pc = "again", !.arg2 = a2,
                                   !.old = pg.pt, !.pt = m.t, !.res = out]
    /\ UNCHANGED pg_rest

\* duplicate_kernel on the table as it is.
DuplicateKernel ==
    /\ pg.pc \in {"mapped", "again"}
    /\ Returned(pg.res)
    /\ pg' = [pg EXCEPT !.pc = "dup", !.old = pg.pt,
                        !.dup = duplicate_kernel(pg.pt)]
    /\ UNCHANGED pg_rest

\* The arguments of a call after the duplication: one 4 KiB page next to
\* the first range, in another page directory of the same PDPT, or under
\* the next PML4 entry.
ThirdArgs(a) ==
    {[virt |-> v, phys |-> Addr(FALSE, FALSE, 7, 0), size |-> MSize(1, 0),
      attr |-> "ReadWriteKernel"] :
        v \in {[a.virt EXCEPT !.off = 0, !.idx[1] = (@ + 8) % ENTRIES],
               [a.virt EXCEPT !.off = 0, !.idx[3] = (@ + 1) % ENTRIES],
               [a.virt EXCEPT !.off = 0, !.idx[4] = (@ + 1) % ENTRIES]}}

\* Box::pin(PageTable::new()) in duplicate_kernel: the duplicate's PML4
\* takes the next page of the heap, and both tables go on sharing the
\* heap's nodes.  The table with the root of one of the two.
root_of(which, T, dup) == IF which = "duplicate" THEN dup ELSE T.pml4
table_through(which, T, dup) ==
    [T EXCEPT !.pml4 = root_of(which, T, dup), !.nodes = Append(@, dup)]

\* The nodes the source table has after a call through the duplicate: the
\* nodes are the heap's, whichever root led to them.
private_nodes(T, m) == T.nodes
shared_nodes(T, m) == m.t.nodes

\* create_mapping through the source table or through its duplicate.
CreateMappingThrough ==
    /\ pg.pc = "dup"
    /\ \E which \in {"source", "duplicate"}, a3 \in ThirdArgs(pg.arg) :
           LET m == create_mapping(table_through(which, pg.pt, pg.dup),
                                   a3.virt, a3.phys, a3.size, a3.attr)
           IN \E out \in Outcomes(m.res) :
                  pg' = [pg EXCEPT
                            !.pc = "through", !.arg3 = a3, !.through = which,
                            !.res = out,
                            !.pt = IF which = "duplicate"
                                   THEN [pg.pt EXCEPT
                                             !.nodes = shared_nodes(pg.pt, m)]
                                   ELSE m.t,
                            !.dup = IF which = "duplicate" THEN m.t.pml4
                                    ELSE pg.dup]
    /\ UNCHANGED pg_rest

\* The table walk the processor makes for v: from the pml4 down, following
\* the address of each present entry to the node at it, to the entry that
\* ends the walk (one not present, a huge one, or the one of level 1).
RECURSIVE WalkFrom(_, _, _, _)
WalkFrom(T, r, v, level) ==
    LET e == EntryAt(NodeOf(T, r), v.idx[level])
    IN IF level = 1 \/ ~is_present(e) \/ (level \in {2, 3} /\ is_huge(e))
       THEN [level |-> level, e |-> e]
       ELSE IF NodeAt(T, paddr(e)) = NoNode
       THEN [level |-> level, e |-> ZeroEntry]
       ELSE WalkFrom(T, NodeAt(T, paddr(e)), v, level - 1)
Walk(T, v) == WalkFrom(T, 0, v, 4)

\* set_entry on the entry the walk for the first range ends at, with any
\* physical address and attribute.
SetEntry ==
    /\ pg.pc = "mapped"
    /\ Returned(pg.res)
    /\ \E pa \in PhysStarts, attr \in Attrs :
           LET w == WalkFrom(pg.pt, 0, pg.arg.virt, 4)
               r == set_entry(w.e, pa, attr)
           IN pg' = [pg EXCEPT !.pc = "set",
                               !.set = [e |-> w.e, pa |-> pa, attr |-> attr,
                                        res |-> r.res, after |-> r.e]]
    /\ UNCHANGED pg_rest

PagingNext ==
    \/ SetEntry
    \/ CreateMapping \/ CreateMappingAgain \/ DuplicateKernel
    \/ CreateMappingThrough

PagingSpec == PagingInit /\ [][PagingNext]_vars

\* ------------------------------------------------------- the kernel heap
\* A third specification: the LinerAllocator behind the global allocator,
\* initialised once and then asked for memory.  usize is 64 bits wide; a
\* word is kept as four limbs of 16 bits, the least significant first.

\* Most calls of alloc in one run.
MaxAllocs == 3

\* The base of a limb.
LIMB == 2 ^ 16
word(w3, w2, w1, w0) == <<w0, w1, w2, w3>>
ZeroWord == word(0, 0, 0, 0)
\* The carry into limb i of a + b.
RECURSIVE carry_in(_, _, _)
carry_in(a, b, i) ==
    IF i = 1 THEN 0
    ELSE (a[i - 1] + b[i - 1] + carry_in(a, b, i - 1)) \div LIMB
\* a + b modulo 2^64, and whether the sum leaves 64 bits.
wrapping_add(a, b) ==
    [i \in 1..4 |-> (a[i] + b[i] + carry_in(a, b, i)) % LIMB]
overflows(a, b) == carry_in(a, b, 5) = 1
\* a > b.
word_gt(a, b) ==
    \E i \in 1..4 : a[i] > b[i] /\ \A j \in (i + 1)..4 : a[j] = b[j]
\* The bits of limb i that lie below bit k.
bits_below(k, i) ==
    IF k >= 16 * i THEN 16 ELSE IF k <= 16 * (i - 1) THEN 0
    ELSE k - 16 * (i - 1)
\* layout.align() for the alignment 2^k, and layout.align() - 1.
align_of(k) ==
    [i \in 1..4 |-> IF k \div 16 = i - 1 THEN 2 ^ (k % 16) ELSE 0]
align_minus_1(k) == [i \in 1..4 |-> 2 ^ bits_below(k, i) - 1]
\* "x & !(layout.align() - 1)".
no_mask(x, k) == x
and_not_mask(x, k) == [i \in 1..4 |-> x[i] - (x[i] % 2 ^ bits_below(k, i))]

\* Layout: a size and an alignment 2^k, as Layout::from_size_align accepts
\* them (the size, rounded up to the alignment, is at most isize::MAX):
\* 1, 8 and 24 bytes, 64 bytes on 16, a page on a page, 2^63 - 4096 bytes,
\* and 8 bytes on 2^47.
Layouts ==
    {[size |-> word(0, 0, 0, 1), k |-> 0],
     [size |-> word(0, 0, 0, 8), k |-> 3],
     [size |-> word(0, 0, 0, 24), k |-> 3],
     [size |-> word(0, 0, 0, 64), k |-> 4],
     [size |-> word(0, 0, 0, 4096), k |-> 12],
     [size |-> word(32767, 65535, 65535, 61440), k |-> 0],
     [size |-> word(0, 0, 0, 8), k |-> 47]}

\* (heap_base, heap_size) of kernel_main: 8 KiB at 1 MiB of the direct
\* mapping (0xffff_8880_0010_0000, where the loader puts the heap), 4 KiB
\* at 0x10_0008, and 256 bytes at 0x1000.
Heaps ==
    {[start |-> word(65535, 34944, 16, 0), size |-> word(0, 0, 0, 8192)],
     [start |-> word(0, 0, 16, 8), size |-> word(0, 0, 0, 4096)],
     [start |-> word(0, 0, 0, 4096), size |-> word(0, 0, 0, 256)]}

\* LinerAllocator::new.
LinerAllocator_new == [start |-> ZeroWord, end |-> ZeroWord, next |-> ZeroWord]
\* LinerAllocator::init.
init(a, start, size) ==
    [start |-> start, end |-> wrapping_add(start, size), next |-> start]

\* GlobalAlloc::alloc.  "current + layout.align() - 1" is a plain addition:
\* where it leaves 64 bits the build with overflow checks panics and the
\* build without them goes on with the sum modulo 2^64.
\* ... from "if alloc_end > allocator.end" on:
alloc_fit(a, alloc_start, alloc_end) ==
    IF word_gt(alloc_end, a.end)
    THEN [a |-> a, res |-> "Ret", ptr |-> ZeroWord]
    ELSE [a |-> [a EXCEPT !.next = alloc_end], res |-> "Ret",
          ptr |-> alloc_start]
\* ... from "alloc_start.checked_add(layout.size())" on:
alloc_from(a, alloc_start, layout) ==
    IF overflows(alloc_start, layout.size)
    THEN [a |-> a, res |-> "Ret", ptr |-> ZeroWord]
    ELSE alloc_fit(a, alloc_start, wrapping_add(alloc_start, layout.size))
alloc(a, layout, checks) ==
    IF checks /\ overflows(a.next, align_of(layout.k))
    THEN [a |-> a, res |-> "Panic", ptr |-> ZeroWord]
    ELSE alloc_from(a,
                    and_not_mask(wrapping_add(a.next, align_minus_1(layout.k)),
                                 layout.k),
                    layout)
\* GlobalAlloc::dealloc: a log line.
dealloc(a, ptr, layout) == a

\* No call yet.
NoCall == [op |-> "none", layout |-> [size |-> ZeroWord, k |-> 0],
           ptr |-> ZeroWord, before |-> LinerAllocator_new]

\* The static ALLOCATOR as Rust constructs it, with the heap kernel_main
\* will hand it and the build (overflow checks or none).
AllocInit ==
    /\ BootState
    /\ pg = PgIdle /\ spin = Idle /\ cpu = Idle /\ memory_regions = Idle
    /\ apic_timer = Idle /\ prologue = Idle /\ loader = Idle
    /\ ALLOCATOR \in {[pc |-> "new", a |-> LinerAllocator_new, heap |-> h,
                       checks |-> c, returned |-> <<>>, allocs |-> 0,
                       last |-> NoCall] :
                      h \in Heaps, c \in BOOLEAN}

\* init_allocator(heap_base, heap_size).
InitAllocator ==
    /\ ALLOCATOR.pc = "new"
    /\ ALLOCATOR' = [ALLOCATOR EXCEPT
                        !.pc = "ready",
                        !.a = init(@, ALLOCATOR.heap.start, ALLOCATOR.heap.size)]
    /\ UNCHANGED alloc_rest

\* alloc(layout): what it returned is kept with the layout, in order.
Alloc ==
    /\ ALLOCATOR.pc = "ready"
    /\ ALLOCATOR.allocs < MaxAllocs
    /\ \E layout \in Layouts :
           LET r == alloc(ALLOCATOR.a, layout, ALLOCATOR.checks)
           IN ALLOCATOR' = [ALLOCATOR EXCEPT
                  !.pc = IF r.res = "Panic" THEN "panic" ELSE "ready",
                  !.a = r.a,
                  !.allocs = @ + 1,
                  !.returned = IF r.res = "Ret" /\ r.ptr # ZeroWord
                               THEN Append(@, [ptr |-> r.ptr, layout |-> layout])
                               ELSE @,
                  !.last = [op |-> IF r.res = "Panic" THEN "panic" ELSE "alloc",
                            layout |-> layout, ptr |-> r.ptr,
                            before |-> ALLOCATOR.a]]
    /\ UNCHANGED alloc_rest

\* dealloc(ptr, layout) of a block alloc has returned.
Dealloc ==
    /\ ALLOCATOR.pc = "ready"
    /\ \E i \in 1..Len(ALLOCATOR.returned) :
           ALLOCATOR' = [ALLOCATOR EXCEPT
               !.a = dealloc(@, ALLOCATOR.returned[i].ptr,
                             ALLOCATOR.returned[i].layout),
               !.last = [op |-> "dealloc",
                         layout |-> ALLOCATOR.returned[i].layout,
                         ptr |-> ALLOCATOR.returned[i].ptr,
                         before |-> ALLOCATOR.a]]
    /\ UNCHANGED alloc_rest

AllocNext == InitAllocator \/ Alloc \/ Dealloc

AllocSpec == AllocInit /\ [][AllocNext]_vars

\* ---------------------------------------------------------- the spin lock
\* A fourth specification: one SpinLock and the contexts (tasks, interrupt
\* handlers) that take it, their instructions interleaved in any order.

\* The contexts.
MaxContexts == 3
\* Most calls of lock by one context.
MaxLocks == 2

Contexts == 1..MaxContexts

\* SpinLock::new: unlocked.  Each context is outside lock ("out"), about to
\* swap ("swap"), in spin_loop ("spin_loop") or holds the SpinGuard that
\* lock returned ("guard").
SpinLock_new ==
    [pc |-> "run", locked |-> FALSE, at |-> [c \in Contexts |-> "out"],
     calls |-> [c \in Contexts |-> 0]]

\* AtomicBool::swap(true, Acquire): the value read, the value left.
swap_reads_false(locked) == FALSE
swap_reads(locked) == locked
swap_leaves(locked) == TRUE
\* AtomicBool::store(false, Release).
store_false(locked) == FALSE

SpinInit ==
    /\ BootState
    /\ pg = PgIdle /\ ALLOCATOR = Idle /\ cpu = Idle /\ memory_regions = Idle
    /\ apic_timer = Idle /\ prologue = Idle /\ loader = Idle
    /\ spin = SpinLock_new

\* A context calls lock.
LockCall(c) ==
    /\ spin.at[c] = "out"
    /\ spin.calls[c] < MaxLocks
    /\ spin' = [spin EXCEPT !.at[c] = "swap", !.calls[c] = @ + 1]
    /\ UNCHANGED spin_rest

\* lock: "while self.locked.swap(true, Ordering::Acquire)", one atomic
\* step; on false the loop ends and lock returns SpinGuard { lock: self }.
LockSwap(c) ==
    /\ spin.at[c] = "swap"
    /\ spin' = [spin EXCEPT
                   !.locked = swap_leaves(@),
                   !.at[c] = IF swap_reads(spin.locked) THEN "spin_loop"
                             ELSE "guard"]
    /\ UNCHANGED spin_rest

\* lock: core::hint::spin_loop(), then the loop condition again.
LockSpin(c) ==
    /\ spin.at[c] = "spin_loop"
    /\ spin' = [spin EXCEPT !.at[c] = "swap"]
    /\ UNCHANGED spin_rest

\* Drop for SpinGuard.
GuardDrop(c) ==
    /\ spin.at[c] = "guard"
    /\ spin' = [spin EXCEPT !.locked = store_false(@), !.at[c] = "out"]
    /\ UNCHANGED spin_rest

SpinNext ==
    \E c \in Contexts : LockCall(c) \/ LockSwap(c) \/ LockSpin(c) \/ GuardDrop(c)

SpinSpec == SpinInit /\ [][SpinNext]_vars

\* ------------------------------------------------- the descriptor tables
\* A fifth specification: init_gdt and init_idt as kernel_main runs them,
\* interrupts off, on the processor as the loader left it.

KERNEL_CODE_SEGMENT == 8
KERNEL_DATA_SEGMENT == 16
TSS64_SEGMENT_SELECTOR == 24
IDT_DPL_0 == 0
IDT_DPL_3 == 3
IDT_GATE_TYPE_INTGATE == 14
\* [IdtDescriptor; 0x100].
IdtLen == 256

\* "f >> 16 * n", "(x & 0xffff) as u16" and "x as u32" on a 64-bit word.
shr_none(f, n) == f
shr(f, n) == [i \in 1..4 |-> IF i + n <= 4 THEN f[i + n] ELSE 0]
low16(x) == x[1]
low32(x) == <<x[1], x[2]>>

\* IdtDescriptor::create.
IdtDescriptor_create(segment_selector, ist_index, gate_type, dpl, f) ==
    [offset_low |-> low16(f),
     segment_selector |-> segment_selector,
     ist |-> ist_index,
     gate_type |-> gate_type % 16,
     dpl |-> dpl % 4,
     present |-> TRUE,
     offset_middle |-> low16(shr(f, 1)),
     offset_high |-> low32(shr(f, 2))]

\* The handlers Idt::new names, and the vectors it gives their own stub.
StubOf(v) ==
    CASE v = 3 -> "interrupt_entry_3"
      [] v = 6 -> "interrupt_entry_6"
      [] v = 13 -> "interrupt_entry_13"
      [] v = 14 -> "interrupt_entry_14"
      [] v = 42 -> "interrupt_entry_42"
      [] OTHER -> "interrupt_handler_unimplemented"
\* Idt::new: the array before Box::pin.
Idt_entries(segment_selector, sym) ==
    [v \in 0..(IdtLen - 1) |->
        IdtDescriptor_create(segment_selector, 1, IDT_GATE_TYPE_INTGATE,
                             IF v = 3 THEN IDT_DPL_3 ELSE IDT_DPL_0,
                             sym[StubOf(v)])]

\* Where the kernel's text may lie: in the higher half, with the stubs
\* across a 64 KiB boundary, at 1 MiB, across the 4 GiB boundary, in the
\* direct mapping, at 4 MiB + 4 KiB, in the last 64 KiB of the address
\* space, and across the 2^48 boundary.
TextBases ==
    {word(65535, 65535, 32768, 0),
     word(65535, 65535, 32783, 65472),
     word(0, 0, 16, 0),
     word(0, 1, 65535, 65504),
     word(65535, 34944, 4660, 22136),
     word(0, 0, 64, 4096),
     word(65535, 65535, 65535, 61440),
     word(0, 65535, 65535, 65520)}
\* The addresses of the handlers in a text at base.
Symbols(base) ==
    [n \in {StubOf(v) : v \in 0..(IdtLen - 1)} |->
        wrapping_add(base,
                     word(0, 0, 0,
                          CASE n = "interrupt_handler_unimplemented" -> 0
                            [] n = "interrupt_entry_3" -> 16
                            [] n = "interrupt_entry_6" -> 48
                            [] n = "interrupt_entry_13" -> 80
                            [] n = "interrupt_entry_14" -> 112
                            [] n = "interrupt_entry_42" -> 144))]
\* The selectors the firmware and the loader leave in cs and in the data
\* segment registers.
FirmwareSelectors ==
    {[cs |-> 56, data |-> 48], [cs |-> 40, data |-> 32], [cs |-> 8, data |-> 16]}

\* init_gdt, statement by statement.
init_gdt_code_first(p) ==
    CASE p = "lgdt" -> "load_kernel_code_segment"
      [] p = "load_kernel_code_segment" -> "ltr"
      [] p = "ltr" -> "load_kernel_data_segment"
      [] p = "load_kernel_data_segment" -> "idt_new"
init_gdt_next(p) ==
    CASE p = "lgdt" -> "ltr"
      [] p = "ltr" -> "load_kernel_data_segment"
      [] p = "load_kernel_data_segment" -> "load_kernel_code_segment"
      [] p = "load_kernel_code_segment" -> "idt_new"

\* The processor when init_gdt has built its table (GdtWrapper::default).
CpuInit ==
    /\ BootState
    /\ pg = PgIdle /\ ALLOCATOR = Idle /\ spin = Idle /\ memory_regions = Idle
    /\ apic_timer = Idle /\ prologue = Idle /\ loader = Idle
    /\ cpu \in {[pc |-> "lgdt", sym |-> Symbols(b), gdtr |-> "firmware",
                 tr |-> 0, cs |-> fw.cs, ds |-> fw.data, es |-> fw.data,
                 fs |-> fw.data, gs |-> fw.data, ss |-> fw.data,
                 entries |-> <<>>, idtr |-> [limit |-> 0, base |-> "firmware"],
                 iflag |-> FALSE, trace |-> <<>>] :
                b \in TextBases, fw \in FirmwareSelectors}

\* GdtWrapper::load: lgdt [gdt_register].
Lgdt ==
    /\ cpu.pc = "lgdt"
    /\ cpu' = [cpu EXCEPT !.pc = init_gdt_next(@), !.gdtr = "kernel",
                          !.trace = Append(@, <<"lgdt", 5 * 8 - 1>>)]
    /\ UNCHANGED cpu_rest

\* GdtWrapper::load: ltr TSS64_SEGMENT_SELECTOR.
Ltr ==
    /\ cpu.pc = "ltr"
    /\ cpu' = [cpu EXCEPT !.pc = init_gdt_next(@),
                          !.tr = TSS64_SEGMENT_SELECTOR,
                          !.trace = Append(@, <<"ltr", TSS64_SEGMENT_SELECTOR>>)]
    /\ UNCHANGED cpu_rest

\* load_kernel_data_segment: mov ds, es, fs, gs, ss from di.
LoadKernelDataSegment ==
    /\ cpu.pc = "load_kernel_data_segment"
    /\ cpu' = [cpu EXCEPT !.pc = init_gdt_next(@),
                          !.ds = KERNEL_DATA_SEGMENT,
                          !.es = KERNEL_DATA_SEGMENT,
                          !.fs = KERNEL_DATA_SEGMENT,
                          !.gs = KERNEL_DATA_SEGMENT,
                          !.ss = KERNEL_DATA_SEGMENT,
                          !.trace = @ \o <<<<"mov ds", KERNEL_DATA_SEGMENT>>,
                                           <<"mov es", KERNEL_DATA_SEGMENT>>,
                                           <<"mov fs", KERNEL_DATA_SEGMENT>>,
                                           <<"mov gs", KERNEL_DATA_SEGMENT>>,
                                           <<"mov ss", KERNEL_DATA_SEGMENT>>>>]
    /\ UNCHANGED cpu_rest

\* load_kernel_code_segment: the far jump through (cx : rax) on the stack.
LoadKernelCodeSegment ==
    /\ cpu.pc = "load_kernel_code_segment"
    /\ cpu' = [cpu EXCEPT !.pc = init_gdt_next(@),
                          !.cs = KERNEL_CODE_SEGMENT,
                          !.trace = Append(@, <<"ljmp", KERNEL_CODE_SEGMENT>>)]
    /\ UNCHANGED cpu_rest

\* Idt::new up to Box::pin(entries).
IdtNew ==
    /\ cpu.pc = "idt_new"
    /\ cpu' = [cpu EXCEPT !.pc = "lidt",
                          !.entries = Idt_entries(KERNEL_CODE_SEGMENT, cpu.sym)]
    /\ UNCHANGED cpu_rest

\* Idt::new: lidt [register].
Lidt ==
    /\ cpu.pc = "lidt"
    /\ cpu' = [cpu EXCEPT !.pc = "sti",
                          !.idtr = [limit |-> IdtLen * 16 - 1, base |-> "entries"],
                          !.trace = Append(@, <<"lidt", IdtLen * 16 - 1>>)]
    /\ UNCHANGED cpu_rest

\* Idt::new: x86::enable_interrupts().
Sti ==
    /\ cpu.pc = "sti"
    /\ cpu' = [cpu EXCEPT !.pc = "done", !.iflag = enable_interrupts(@),
                          !.trace = Append(@, <<"sti", 0>>)]
    /\ UNCHANGED cpu_rest

CpuNext ==
    \/ Lgdt \/ Ltr \/ LoadKernelDataSegment \/ LoadKernelCodeSegment
    \/ IdtNew \/ Lidt \/ Sti

CpuSpec == CpuInit /\ [][CpuNext]_vars

\* ------------------------------------------ the loader's memory regions
\* A sixth specification: the loop of the loader's main that turns the
\* firmware's memory map into the MemoryRegionArray it hands to the kernel.

MAX_MEMORY_REGION_LEN == 128
\* Most descriptors of a memory map beyond the capacity of the table.
MaxOverfill == 2

\* MemoryRegion::zeroed.
MemoryRegion_zeroed == [start |-> 0, len |-> 0, typ |-> "Reserved"]
\* MemoryRegionArray::new.
MemoryRegionArray_new ==
    [regions |-> [j \in 0..(MAX_MEMORY_REGION_LEN - 1) |-> MemoryRegion_zeroed],
     count |-> 0]
\* push: "assert!(self.count < MAX_MEMORY_REGION_LEN)".
always_room(count) == TRUE
has_room(count) == count < MAX_MEMORY_REGION_LEN
\* MemoryRegionArray::push.
MemoryRegionArray_push(arr, region) ==
    IF ~has_room(arr.count) THEN [arr |-> arr, res |-> "Panic"]
    ELSE [arr |-> [arr EXCEPT !.regions[arr.count] = region,
                              !.count = @ + 1],
          res |-> "Ok"]
\* main: the region made of one descriptor of the memory map.
region_of(desc) ==
    [start |-> desc.physical_start,
     len |-> desc.number_of_pages * PAGE_SIZE,
     typ |-> IF desc.type \in {"BOOT_SERVICES_CODE", "CONVENTIONAL_MEMORY"}
             THEN "Usable" ELSE "Reserved"]

\* A memory map of n descriptors: consecutive ranges of 1 to 4 pages whose
\* types go round, from the k-th on, through conventional memory, boot
\* services code, boot services data and reserved.
MemoryMapOf(n, k) ==
    [i \in 1..n |->
        [type |-> <<"CONVENTIONAL_MEMORY", "BOOT_SERVICES_CODE",
                    "BOOT_SERVICES_DATA", "RESERVED">>[((i + k) % 4) + 1],
         physical_start |-> 4 * i * PAGE_SIZE,
         number_of_pages |-> (i % 4) + 1]]
\* The lengths of the memory maps: none, a few, and from one below the
\* capacity of the table to MaxOverfill above it.
MapLens ==
    {0, 3} \cup
    ((MAX_MEMORY_REGION_LEN - 1)..(MAX_MEMORY_REGION_LEN + MaxOverfill))

RegionsInit ==
    /\ BootState
    /\ pg = PgIdle /\ ALLOCATOR = Idle /\ spin = Idle /\ cpu = Idle
    /\ apic_timer = Idle /\ prologue = Idle /\ loader = Idle
    /\ memory_regions \in
           {[pc |-> "for", arr |-> MemoryRegionArray_new,
             memory_map |-> MemoryMapOf(n, k), next |-> 1] :
            n \in MapLens, k \in 0..3}

\* main: one turn of "for desc in memory_map.iter()".
PushRegion ==
    /\ memory_regions.pc = "for"
    /\ memory_regions.next <= Len(memory_regions.memory_map)
    /\ LET r == MemoryRegionArray_push(
                    memory_regions.arr,
                    region_of(memory_regions.memory_map[memory_regions.next]))
       IN memory_regions' =
              [memory_regions EXCEPT
                  !.pc = IF r.res = "Panic" THEN "panic" ELSE "for",
                  !.arr = r.arr,
                  !.next = IF r.res = "Panic" THEN @ ELSE @ + 1]
    /\ UNCHANGED regions_rest

\* main: the loop is over.
LoopEnd ==
    /\ memory_regions.pc = "for"
    /\ memory_regions.next > Len(memory_regions.memory_map)
    /\ memory_regions' = [memory_regions EXCEPT !.pc = "done"]
    /\ UNCHANGED regions_rest

RegionsNext == PushRegion \/ LoopEnd

RegionsSpec == RegionsInit /\ [][RegionsNext]_vars

\* ------------------------------------------------------ the timer count
\* A seventh specification: LocalApicTimer::increment_count applied, call
\* after call, to a count that starts anywhere in the range of a u32.

\* Most calls in one run.
MaxIncrements == 6

\* Where the count starts: at 0, 1 and 2, at the ends of the lower limb,
\* at 2^31 - 1 and 2^31, and in the last three values of a u32.
Counts ==
    {u32(0, 0), u32(0, 1), u32(0, 2), u32(0, 65534), u32(0, 65535),
     u32(1, 0), u32(32767, 65535), u32(32768, 0), u32(65535, 65533),
     u32(65535, 65534), U32_MAX}

TimerInit ==
    /\ BootState
    /\ UnitsIdle
    /\ prologue = Idle /\ loader = Idle
    /\ apic_timer \in {[pc |-> "run", count |-> c, checks |-> b, before |-> c,
                        calls |-> 0] : c \in Counts, b \in BOOLEAN}

\* timer::increment_count().
IncrementCount ==
    /\ apic_timer.pc = "run"
    /\ apic_timer.calls < MaxIncrements
    /\ LET r == LocalApicTimer_increment_count(apic_timer.count,
                                               apic_timer.checks)
       IN apic_timer' = [apic_timer EXCEPT
                            !.pc = IF r.res = "Panic" THEN "panic" ELSE "run",
                            !.count = r.count,
                            !.before = apic_timer.count,
                            !.calls = @ + 1]
    /\ UNCHANGED timer_rest

TimerNext == IncrementCount

TimerSpec == TimerInit /\ [][TimerNext]_vars

\* ----------------------------------------------- interrupt_handler_common
\* The part of interrupt_handler_common between the sixteen pushes and the
\* sixteen pops (idt.rs:138-145), one action an instruction, on a stack of
\* 8-byte words addressed by their byte address.  S is rsp after the
\* sixteen pushes.

\* The deepest frame, in words, the dispatcher writes below its return
\* address.
MaxFrame == 2
\* Values of S: 8-byte aligned, of both residues modulo 16.
StackPointers == {256, 264, 272, 280, 512, 520}
\* What the words below S hold before the prologue writes them.
Junk == {0, 1}
\* The return address the call pushes.
AfterCall == "mov_rsp"
\* The addresses the prologue and the dispatcher can write, and S itself.
Words(S) == {S - 8 * k : k \in 0..(MaxFrame + 5)}

\* and rsp, 0xfffffffffffffff0.
and_nothing(rsp) == rsp
and_rsp(rsp) == rsp - (rsp % 16)

PrologueInit ==
    /\ BootState /\ UnitsIdle /\ apic_timer = Idle /\ loader = Idle
    /\ prologue \in {[pc |-> "push_rsp", S |-> s, rsp |-> s, rdi |-> j,
                      m |-> [a \in Words(s) |-> j], arg |-> j, frame |-> 0]
                         : s \in StackPointers, j \in Junk}

\* push x: rsp goes down by 8 and x is written there.
push_word(p, x) == [p EXCEPT !.rsp = p.rsp - 8, !.m[p.rsp - 8] = x]

\* push rsp: the value pushed is rsp before the push.
PushRsp ==
    /\ prologue.pc = "push_rsp"
    /\ prologue' = [push_word(prologue, prologue.rsp) EXCEPT !.pc = "pop_rdi"]
    /\ UNCHANGED prologue_rest

\* pop rdi.
PopRdi ==
    /\ prologue.pc = "pop_rdi"
    /\ prologue' = [prologue EXCEPT !.rdi = prologue.m[prologue.rsp],
                                    !.rsp = prologue.rsp + 8,
                                    !.pc = "push_rsp_2"]
    /\ UNCHANGED prologue_rest

\* push rsp, the second one.
PushRspAgain ==
    /\ prologue.pc = "push_rsp_2"
    /\ prologue' = [push_word(prologue, prologue.rsp) EXCEPT !.pc = "push_mem"]
    /\ UNCHANGED prologue_rest

\* push [rsp]: the word at rsp is read, then pushed.
PushMem ==
    /\ prologue.pc = "push_mem"
    /\ prologue' = [push_word(prologue, prologue.m[prologue.rsp])
                        EXCEPT !.pc = "and_rsp"]
    /\ UNCHANGED prologue_rest

\* and rsp, 0xfffffffffffffff0.
AndRsp ==
    /\ prologue.pc = "and_rsp"
    /\ prologue' = [prologue EXCEPT !.rsp = and_rsp(prologue.rsp),
                                    !.pc = "call"]
    /\ UNCHANGED prologue_rest

\* call interrupt_handler: the return address is pushed; the dispatcher's
\* argument is rdi.
CallInterruptHandler ==
    /\ prologue.pc = "call"
    /\ prologue' = [push_word(prologue, AfterCall)
                        EXCEPT !.arg = prologue.rdi, !.pc = "interrupt_handler"]
    /\ UNCHANGED prologue_rest

\* interrupt_handler runs: it writes a frame of some depth below its return
\* address, leaves rdi (caller-saved) with any value, and returns with
\* "ret", which pops the return address.
InterruptHandlerRuns ==
    /\ prologue.pc = "interrupt_handler"
    /\ \E k \in 0..MaxFrame, j \in Junk :
          prologue' = [prologue EXCEPT
              !.m = [a \in Words(prologue.S) |->
                        IF a < prologue.rsp /\ a >= prologue.rsp - 8 * k
                        THEN j ELSE prologue.m[a]],
              !.rdi = j,
              !.frame = k,
              !.rsp = prologue.rsp + 8,
              !.pc = prologue.m[prologue.rsp]]
    /\ UNCHANGED prologue_rest

\* mov rsp, [rsp + 8].
MovRsp ==
    /\ prologue.pc = "mov_rsp"
    /\ prologue' = [prologue EXCEPT !.rsp = prologue.m[prologue.rsp + 8],
                                    !.pc = "pop_rax"]
    /\ UNCHANGED prologue_rest

PrologueNext ==
    \/ PushRsp \/ PopRdi \/ PushRspAgain \/ PushMem \/ AndRsp
    \/ CallInterruptHandler \/ InterruptHandlerRuns \/ MovRsp

PrologueSpec == PrologueInit /\ [][PrologueNext]_vars

\* ------------------------------------------------------ preemption for ever
\* The kernel from the hlt loop of kernel_main on (main.rs:102-110): the
\* idle task and the tasks kernel_main has spawned, none of which calls
\* switch or spawn or faults, and a periodic timer whose interrupts never
\* cease.  The interrupt path and the scheduler are the actions of the
\* kernel's specification; the count of the interrupts delivered and of the
\* timer, which the scheduler does not read, are followed up to
\* MaxTimerIrqs only.

\* A task as spawn leaves it.
Spawned(pid) ==
    [NewTask(pid) EXCEPT
        !.context = setup_initial_call(TaskContextDefault, StackOf(pid)),
        !.kernel_stack = Box_new_AlignedStack(pid),
        !.state = "Runnable",
        !.page_table = pid + 1]

\* kernel_main has run task::init and n - 1 spawns with interrupts disabled,
\* has enabled interrupts and is in its hlt loop.
Booted(n) ==
    /\ pc = "task"
    /\ sp = <<StackOf(0), 0>>
    /\ regs = AllRegs(StackOf(0))
    /\ iflag = TRUE
    /\ cr3 = <<"direct", 1>>
    /\ mem = [s \in 0..MaxTasks |->
                 IF s >= 2 /\ s <= n THEN <<RetCell("entry")>> ELSE <<>>]
    /\ tasks = [i \in 1..n |->
                   IF i = 1 THEN [NewTask(0) EXCEPT !.state = "Runnable",
                                                    !.running = TRUE,
                                                    !.page_table = 1]
                   ELSE Spawned(i - 1)]
    /\ PID = n
    /\ current_task = 0
    /\ ticks = 0
    /\ locks = [current_task |-> FALSE, timer |-> FALSE, TASKS |-> FALSE]
    /\ timer = [count |-> 0, armed |-> TRUE, in_service |-> FALSE]
    /\ heap_next = n
    /\ loc = LocDefault
    /\ spl = SplDefault
    /\ delivered = 0
    /\ irqSince = 0
    /\ preempts = 0

LiveInit ==
    /\ \E n \in 2..MaxTasks : Booted(n)
    /\ UnitsIdle /\ apic_timer = Idle /\ prologue = Idle /\ loader = Idle

\* The local APIC delivers the next interrupt of the periodic timer.
TimerInterruptPeriodic ==
    /\ iflag
    /\ ~Stopped
    /\ timer.armed /\ ~timer.in_service
    /\ InterruptEntry(VEC_TIMER)
    /\ timer' = [timer EXCEPT !.in_service = TRUE]
    /\ delivered' = IF delivered < MaxTimerIrqs THEN delivered + 1 ELSE delivered
    /\ irqSince' = IF irqSince < QUANTUM THEN irqSince + 1 ELSE irqSince
    /\ UNCHANGED <<regs, cr3, tasks, PID, current_task, ticks, locks,
                   heap_next, loc, spl, preempts>>
    /\ UNCHANGED uvars

\* interrupt_handler, vector 42: timer::increment_count() under the lock of
\* LOCAL_APIC_TIMER.
HandleTimerCountOn ==
    /\ pc = "interrupt_handler"
    /\ FrameVector = VEC_TIMER
    /\ ~locks.timer
    /\ timer' = [timer EXCEPT !.count = IF @ < MaxTimerIrqs
                                        THEN increment_count(@) ELSE @]
    /\ pc' = "notify_end_of_interrupt"
    /\ UNCHANGED <<sp, regs, iflag, cr3, mem, tasks, PID, current_task, ticks,
                   locks, heap_next, loc, spl, delivered, irqSince, preempts>>
    /\ UNCHANGED uvars

\* What the CPU executes, every step but the arrival of an interrupt: the
\* sixteen pushes and the sixteen pops of interrupt_handler_common, and the
\* other steps.
Steps ==
    \/ HandleTimerCountOn \/ HandleTimerEoi
    \/ HandleTimerTick \/ CheckSchedule \/ CheckSkip
    \/ CheckReturn \/ Iretq
    \/ ScheduleEnter \/ SwitchTicks \/ SwitchTasks \/ SwitchCurrent
    \/ SwitchPosition \/ SwitchScan \/ SwitchSelected \/ SwitchLockPrev
    \/ SwitchLockNext \/ SwitchPublish \/ SwitchRunning \/ SwitchCr3
    \/ SwitchDrop \/ SwitchInner \/ SwitchInnerResume \/ SwitchReturn
    \/ TaskEntry

LiveNext ==
    TimerInterruptPeriodic \/ SaveRegisters \/ RestoreRegisters \/ Steps

\* The CPU goes on executing: no step that can be taken is put off for ever
\* (SaveRegisters and RestoreRegisters can be taken exactly at their pc, and
\* leave it).  The periodic timer goes on interrupting whenever the
\* interrupt flag is set and its last interrupt has been acknowledged; its
\* period is far longer than an instruction, so a task that is resumed
\* again and again at its first instruction does execute it.
LiveSpec ==
    /\ LiveInit
    /\ [][LiveNext]_vars
    /\ WF_vars(Steps)
    /\ []<>(pc # "interrupt_handler_common")
    /\ []<>(pc # "restore_registers")
    /\ WF_vars(TimerInterruptPeriodic)
    /\ SF_vars(TaskEntry)

\* ------------------------------------------------------------ loader main
\* main of the loader (loader main.rs:219-285) against the firmware's
\* memory services.  The firmware's memory map is a sequence of descriptors
\* [physical_start, number_of_pages, type]; every change of the map changes
\* its key.  Adjacent descriptors of one type are not merged.

\* KERNEL_HEAP_SIZE of the loader (main.rs:20); its KERNEL_STACK_SIZE
\* (main.rs:19) has the value of the kernel's.
KERNEL_HEAP_SIZE == 16 * 2 ^ 20
Descriptor(page, pages, type) ==
    [physical_start |-> page * PAGE_SIZE, number_of_pages |-> pages,
     type |-> type]
\* The memory maps the firmware starts the loader with.
FirmwareMaps ==
    { << Descriptor(0, 160, "CONVENTIONAL_MEMORY"),
         Descriptor(160, 96, "RESERVED_MEMORY_TYPE"),
         Descriptor(256, 8192, "CONVENTIONAL_MEMORY"),
         Descriptor(8448, 64, "BOOT_SERVICES_DATA"),
         Descriptor(8512, 128, "BOOT_SERVICES_CODE"),
         Descriptor(8640, 32, "LOADER_CODE") >>,
      << Descriptor(0, 256, "BOOT_SERVICES_CODE"),
         Descriptor(256, 64, "CONVENTIONAL_MEMORY"),
         Descriptor(320, 32, "LOADER_CODE"),
         Descriptor(352, 4200, "CONVENTIONAL_MEMORY"),
         Descriptor(4552, 8, "BOOT_SERVICES_DATA"),
         Descriptor(4560, 4096, "CONVENTIONAL_MEMORY") >> }
\* The kernel images: the physical address of the first PT_LOAD segment and
\* the pages from the lowest to the highest virtual address.
KernelImages ==
    { [kernel_start_phys |-> 256 * PAGE_SIZE, pages |-> 16],
      [kernel_start_phys |-> 272 * PAGE_SIZE, pages |-> 64] }

\* No allocation yet.
NoExtent == [physical_start |-> 0, number_of_pages |-> 0]
\* ((size + 0xFFF) / 0x1000) of allocate_memory and load_to_memory.
pages_of(size) == (size + 4095) \div 4096
\* The end of a descriptor or extent.
end_of(d) == d.physical_start + d.number_of_pages * PAGE_SIZE

\* AllocatePages takes `pages` pages, `skip` pages into descriptor i of the
\* map, as LOADER_DATA: the descriptor is split.
split(d, skip, pages) ==
    (IF skip > 0
     THEN << [d EXCEPT !.number_of_pages = skip] >> ELSE << >>)
    \o << [physical_start |-> d.physical_start + skip * PAGE_SIZE,
           number_of_pages |-> pages, type |-> "LOADER_DATA"] >>
    \o (IF d.number_of_pages - skip - pages > 0
        THEN << [physical_start |->
                     d.physical_start + (skip + pages) * PAGE_SIZE,
                 number_of_pages |-> d.number_of_pages - skip - pages,
                 type |-> d.type] >>
        ELSE << >>)
take(mm, i, skip, pages) ==
    SubSeq(mm, 1, i - 1) \o split(mm[i], skip, pages)
        \o SubSeq(mm, i + 1, Len(mm))
\* The places AllocatePages(ALLOCATE_ANY_PAGES) may choose: the bottom or
\* the top of a free descriptor that is large enough.
AnyPages(mm, pages) ==
    { [i |-> i, skip |-> k] :
        i \in { j \in 1..Len(mm) :
                  /\ mm[j].type = "CONVENTIONAL_MEMORY"
                  /\ mm[j].number_of_pages >= pages },
        k \in {0, 1} }
any_skip(mm, c, pages) ==
    IF c.skip = 0 THEN 0 ELSE mm[c.i].number_of_pages - pages
\* The place AllocatePages(ALLOCATE_ADDRESS) takes: the free descriptor
\* that holds the whole range, if there is one.
AtAddress(mm, addr, pages) ==
    { i \in 1..Len(mm) :
        /\ mm[i].type = "CONVENTIONAL_MEMORY"
        /\ mm[i].physical_start <= addr
        /\ addr + pages * PAGE_SIZE <= end_of(mm[i]) }

\* MemoryMap::new: the map and its key as GetMemoryMap returns them; `after`
\* counts the page allocations the firmware had made for the loader by then.
MemoryMap_new(l) ==
    [map |-> l.firmware, map_key |-> l.key, after |-> l.allocations]
\* The match of main on desc.type and MemoryRegion::new.
region_type(type) ==
    IF type \in {"BOOT_SERVICES_CODE", "CONVENTIONAL_MEMORY"}
    THEN "Usable" ELSE "Reserved"
MemoryRegion_new(desc) ==
    [base |-> desc.physical_start,
     len |-> desc.number_of_pages * PAGE_SIZE,
     typ |-> region_type(desc.type)]
\* The memory_map in scope at the call of exit_boot_services: the second
\* "let memory_map" shadows the first.
first_memory_map(l) == l.memory_map
memory_map_in_scope(l) == l.memory_map_2

LoaderInit ==
    /\ BootState /\ UnitsIdle /\ apic_timer = Idle /\ prologue = Idle
    /\ loader \in
         { [pc |-> "main", firmware |-> m, key |-> 1, allocations |-> 0,
            elf |-> e, memory_map |-> [map |-> << >>, map_key |-> 0, after |-> 0],
            memory_map_2 |-> [map |-> << >>, map_key |-> 0, after |-> 0],
            image |-> NoExtent, stack |-> NoExtent, heap |-> NoExtent,
            memory_regions |-> << >>, passed |-> 0, status |-> "none"]
             : m \in FirmwareMaps, e \in KernelImages }

\* The firmware takes pages for the loader: the map and its key change.
allocated(l, mm) ==
    [l EXCEPT !.firmware = mm, !.key = l.key + 1,
              !.allocations = l.allocations + 1]

\* main: let memory_map = memory::MemoryMap::new(), the first one.
FirstMemoryMap ==
    /\ loader.pc = "main"
    /\ loader' = [loader EXCEPT !.memory_map = MemoryMap_new(loader),
                                !.pc = "load_to_memory"]
    /\ UNCHANGED loader_rest

\* load_to_memory: allocate_pages(ALLOCATE_ADDRESS, LOADER_DATA, ..) at the
\* kernel's physical address, "expect"ed, then the segments are copied.
LoadToMemory ==
    /\ loader.pc = "load_to_memory"
    /\ LET addr == loader.elf.kernel_start_phys
           n == loader.elf.pages
           at == AtAddress(loader.firmware, addr, n)
       IN IF at = {}
          THEN loader' = [loader EXCEPT !.pc = "panic"]
          ELSE \E i \in at :
                 loader' = [allocated(loader,
                               take(loader.firmware, i,
                                    (addr - loader.firmware[i].physical_start)
                                        \div PAGE_SIZE, n))
                            EXCEPT !.image = [physical_start |-> addr,
                                              number_of_pages |-> n],
                                   !.pc = "allocate_stack"]
    /\ UNCHANGED loader_rest

\* allocate_memory(size): allocate_pages(ALLOCATE_ANY_PAGES, LOADER_DATA,
\* ..), "expect"ed; what l becomes with the extent stored in field f.
allocate_memory(l, size, f, next) ==
    {[l EXCEPT !.pc = "panic"] : x \in
        IF AnyPages(l.firmware, pages_of(size)) = {} THEN {0} ELSE {}}
    \cup
    { [allocated(l, take(l.firmware, c.i,
                         any_skip(l.firmware, c, pages_of(size)),
                         pages_of(size)))
       EXCEPT ![f] = [physical_start |->
                          l.firmware[c.i].physical_start
                          + any_skip(l.firmware, c, pages_of(size)) * PAGE_SIZE,
                      number_of_pages |-> pages_of(size)],
              !.pc = next]
        : c \in AnyPages(l.firmware, pages_of(size)) }

\* main: stack_base = allocate_memory(KERNEL_STACK_SIZE) + ..
AllocateStack ==
    /\ loader.pc = "allocate_stack"
    /\ loader' \in allocate_memory(loader, KERNEL_STACK_SIZE, "stack",
                                   "allocate_heap")
    /\ UNCHANGED loader_rest

\* main: heap_base = allocate_memory(KERNEL_HEAP_SIZE) + ..
AllocateHeap ==
    /\ loader.pc = "allocate_heap"
    /\ loader' \in allocate_memory(loader, KERNEL_HEAP_SIZE, "heap",
                                   "memory_regions")
    /\ UNCHANGED loader_rest

\* main: the loop "for desc in memory_map.iter()" that fills memory_regions
\* (the maps here have fewer than MAX_MEMORY_REGION_LEN descriptors).
FillMemoryRegions ==
    /\ loader.pc = "memory_regions"
    /\ loader' = [loader EXCEPT
          !.memory_regions =
              [i \in 1..Len(loader.memory_map.map) |->
                  MemoryRegion_new(loader.memory_map.map[i])],
          !.pc = "memory_map_2"]
    /\ UNCHANGED loader_rest

\* main: let memory_map = memory::MemoryMap::new(), the second one.  Its
\* buffer is allocated before GetMemoryMap is called, from the pool the
\* loader has or from pages the firmware takes for it.
SecondMemoryMap ==
    /\ loader.pc = "memory_map_2"
    /\ \E l \in {loader} \cup
                { allocated(loader,
                            take(loader.firmware, c.i,
                                 any_skip(loader.firmware, c, 1), 1))
                    : c \in AnyPages(loader.firmware, 1) } :
          loader' = [l EXCEPT !.memory_map_2 = MemoryMap_new(l),
                              !.pc = "exit_boot_services"]
    /\ UNCHANGED loader_rest

\* main: exit_boot_services(handle, memory_map.get_map_key()), "expect"ed.
\* The firmware refuses a key that is not the key of its current map; its
\* own activity since GetMemoryMap may have changed the map too.
ExitBootServices ==
    /\ loader.pc = "exit_boot_services"
    /\ \E own \in BOOLEAN :
          LET k == memory_map_in_scope(loader).map_key
              ok == k = loader.key /\ ~own
          IN loader' = [loader EXCEPT
                 !.passed = k,
                 !.key = IF own THEN loader.key + 1 ELSE loader.key,
                 !.status = IF ok THEN "SUCCESS" ELSE "INVALID_PARAMETER",
                 !.pc = IF ok THEN "kernel_entry" ELSE "panic"]
    /\ UNCHANGED loader_rest

\* main: kernel_entry(stack_base, heap_base, heap_size, &memory_regions).
KernelEntry ==
    /\ loader.pc = "kernel_entry"
    /\ loader' = [loader EXCEPT !.pc = "kernel"]
    /\ UNCHANGED loader_rest

LoaderNext ==
    \/ FirstMemoryMap \/ LoadToMemory \/ AllocateStack \/ AllocateHeap
    \/ FillMemoryRegions \/ SecondMemoryMap \/ ExitBootServices
    \/ KernelEntry

LoaderSpec == LoaderInit /\ [][LoaderNext]_vars

\* ---------------------------------------------------------------- claims
\* The pid of the task at 0-based index i of the list.
PidAt(i) == tasks[i + 1].pid
AllRunnable == \A i \in 1..Len(tasks) : tasks[i].state = "Runnable"
\* The task with pid p is Runnable and no other task of the list is.
OnlyRunnable(p) ==
    \A i \in 1..Len(tasks) : (tasks[i].state = "Runnable") <=> (tasks[i].pid = p)
\* The scheduler between its choice of (prev, next) and the publication ...
Choosing == {"switch_lock_prev", "switch_lock_next", "switch_publish"}
\* ... and from the publication to the call of switch_inner.
Published == {"switch_running", "switch_cr3", "switch_drop", "switch_inner"}
\* The scheduler from the instruction after cli to the context swap or the
\* instruction before sti.
Critical ==
    {"switch_ticks", "switch_tasks", "switch_current", "switch_position",
     "switch_scan", "switch_selected"} \cup Choosing \cup Published
\* The least k in 1..Len(ts), from k on, such that the task k places after
\* index idx (circularly) is Runnable; 0 when there is none.
RECURSIVE FirstRunnable(_, _, _)
FirstRunnable(ts, idx, k) ==
    IF k > Len(ts) THEN 0
    ELSE IF ts[((idx + k) % Len(ts)) + 1].state = "Runnable" THEN k
    ELSE FirstRunnable(ts, idx, k + 1)

\* C1: with N >= 2 tasks in the list, all Runnable, and the current task at
\* index i, the scheduler chooses the task at index (i + 1) mod N as next,
\* the current task as prev, and publishes next as the current task.
C1_RoundRobin ==
    (pc \in (Choosing \cup Published) /\ Len(tasks) >= 2 /\ AllRunnable)
        => /\ loc.idx < Len(tasks)
           /\ loc.prev = PidAt(loc.idx)
           /\ loc.next = PidAt((loc.idx + 1) % Len(tasks))
           /\ pc \in Published => current_task = loc.next
\* Three Runnable tasks, the last of the list current when the scheduler was
\* called: the first of the list has been published, at the context swap.
C1_Witness ==
    /\ pc = "switch_inner"
    /\ Len(tasks) = 3 /\ AllRunnable
    /\ loc.idx = 2 /\ loc.prev = 2 /\ current_task = 0

\* C2: when the current task is the only Runnable task of the list, the
\* scheduler chooses no next task, so that it swaps no context and returns:
\* it never comes to lock a next task that is the previous task, whose lock
\* it holds.
C2_SoleRunnableNoSwap ==
    /\ (pc = "switch_selected" /\ OnlyRunnable(loc.cur)) => loc.next = NoTask
    /\ pc = "switch_lock_next" => loc.next # loc.prev

\* C3: the task the scheduler chooses is the first Runnable task after the
\* current one in the circular order of the list, it chooses none only when
\* no task is Runnable, and the current task is never a Stopped one.
C3_StoppedSkipped ==
    /\ (pc \in ({"switch_selected"} \cup Choosing \cup Published)
            /\ loc.idx < Len(tasks))
        => LET k == FirstRunnable(tasks, loc.idx, 1)
           IN IF k = 0 THEN loc.next = NoTask
              ELSE /\ loc.next = PidAt((loc.idx + k) % Len(tasks))
                   /\ TaskOf(loc.next).state = "Runnable"
    /\ current_task # NoTask => TaskOf(current_task).state = "Runnable"
\* The task after the current one is Stopped and has been passed over for a
\* Runnable task further on, which is published.
C3_Witness ==
    /\ pc = "switch_inner"
    /\ tasks[((loc.idx + 1) % Len(tasks)) + 1].state = "Stopped"
    /\ loc.next # loc.prev
    /\ current_task = loc.next

\* C4: the task list is the sequence of the tasks in the order of their
\* creation: the task at (0-based) index i is the i-th task created, pid i.
C4_CreationOrder == \A i \in 1..Len(tasks) : tasks[i].pid = i - 1
\* Three tasks have been created, the last by spawn, and the scheduler has
\* been through the list.
C4_Witness ==
    /\ Len(tasks) = 3
    /\ tasks[3].state = "Runnable"
    /\ current_task = 2

\* C5: at the context swap the scheduler holds no lock: the lock of the
\* task list, of the current-task cell, of the previous and of the next
\* task are all free.
C5_NoLockAtSwap ==
    pc = "switch_inner"
        => /\ ~locks.TASKS
           /\ ~locks.current_task
           /\ ~TaskOf(loc.prev).locked
           /\ ~TaskOf(loc.next).locked
\* The context swap of a call of switch between two different tasks.
C5_Witness ==
    /\ pc = "switch_inner"
    /\ loc.via = "switch"
    /\ loc.prev = 0 /\ loc.next = 1

\* The physical address of the page table of the task with pid p.
PageTablePA(p) == virt_to_phys(PageTableVA(TaskOf(p).page_table))

C7_InterruptsDisabled == pc \in (Critical \cup {"switch_sti"}) => ~iflag
\* A call of switch is between its choice and the publication while the
\* timer has an interrupt to deliver, which only the flag holds back.
C7_Witness ==
    /\ pc = "switch_publish"
    /\ loc.via = "switch"
    /\ timer.armed /\ ~timer.in_service /\ delivered < MaxTimerIrqs
    /\ ~iflag

\* The pcs of the interrupt path before the write to the EOI register.
BeforeEoi ==
    {"interrupt_handler_common", "interrupt_handler", "notify_end_of_interrupt"}
\* C8: a timer interrupt is in service only up to the write to the EOI
\* register, which comes after the count is incremented: from task::tick on,
\* and so at the preemption check and wherever task code runs, every timer
\* interrupt delivered has been counted and acknowledged.
C8_EoiBeforeCheck ==
    /\ timer.in_service => pc \in BeforeEoi
    /\ pc = "notify_end_of_interrupt" => timer.count = delivered
    /\ pc \notin BeforeEoi => timer.count = delivered
\* A task switched to by the preemption check of a timer interrupt starts
\* with the interrupt acknowledged.
C8_Witness ==
    /\ pc = "entry"
    /\ preempts >= 1
    /\ mem[IstStack][3] = WordCell(VEC_TIMER)
    /\ ~timer.in_service /\ timer.count = delivered

\* C9: check_and_schedule calls the scheduler if and only if ticks >= 3;
\* at such a call at least 3 timer interrupts have been delivered since the
\* previous one; and past its store the scheduler has the counter at 0.
C9_Quantum ==
    /\ [](pc \in (Critical \ {"switch_ticks"}) => ticks = 0)
    /\ [][pc = "check_and_schedule"
            => /\ (pc' = "schedule") <=> (ticks >= 3)
               /\ (pc' = "schedule") => irqSince >= 3]_vars
\* check_and_schedule calls the scheduler for the second time.
C9_Witness ==
    /\ pc = "schedule"
    /\ preempts = 2
    /\ delivered = 6

\* C10: the preemption check runs while the sixteen saved registers are
\* still on the stack, above the three words of the frame (rip.., error
\* code, vector), and iretq resumes the interrupted code with the registers
\* it had at the entry of the interrupt.
C10_RegistersPreserved ==
    /\ pc = "check_and_schedule" => sp[2] >= 3 + 16
    /\ (pc = "iretq" /\ Top.k = "hw") => regs = Top.r0

\* C11: the dispatcher returns to the trampoline only for vectors 3 and 42:
\* whenever the trampoline is reached again after the call, the vector of
\* the frame it handled is 3 or 42; and once the dispatcher has halted on
\* another vector the processor stays halted, so the interrupted code is
\* never resumed.
C11_FatalNeverReturns ==
    /\ [](pc = "restore_registers" =>
              mem[sp[1]][sp[2] - 17].n \in {VEC_BREAKPOINT, VEC_TIMER})
    /\ [][pc = "halt" => pc' = "halt" /\ ~iflag']_vars

\* C11's case: the dispatcher has halted on a page fault taken by a task.
C11_Witness ==
    /\ pc = "halt"
    /\ FrameVector = VEC_PAGE_FAULT
    /\ mem[IstStack][1].lab = "task"

\* C12: in the boot sequence task::init has published the idle task as the
\* current task before interrupts are enabled for the first time, so that
\* the scheduler is never invoked from an interrupt return path while the
\* current-task pointer is empty.
C12_InitBeforeInterrupts ==
    /\ iflag => current_task # NoTask
    /\ pc = "schedule" => current_task # NoTask

\* ------------------------------------------------------ claims on paging
\* The attribute bits of an entry, bit 63 included.
AttrBits(e) == e.low \cup (IF e.b63 THEN {"NX"} ELSE {})
\* The physical page the walk w translates v to.
Frame(w, v) ==
    IF w.level = 1 THEN w.e.pn
    ELSE IF w.level = 2 THEN w.e.pn + v.idx[1]
    ELSE w.e.pn + v.idx[2] * ENTRIES + v.idx[1]
\* v + 4096 * k, modulo the address space.
VPlus(v, k) ==
    LET s1 == v.idx[1] + k
        s2 == v.idx[2] + (s1 \div ENTRIES)
        s3 == v.idx[3] + (s2 \div ENTRIES)
        s4 == v.idx[4] + (s3 \div ENTRIES)
    IN [v EXCEPT !.idx = <<s1 % ENTRIES, s2 % ENTRIES, s3 % ENTRIES,
                           s4 % ENTRIES>>]
\* The pages of a range of n pages that are looked at: all of them, or, of
\* a range of whole GiB, those at the ends of the first GiB and the last.
PageSample(n) ==
    IF n <= MaxPages + 1 THEN 0..(n - 1)
    ELSE {0, 1, GiBPages - 1, GiBPages, n - 1} \cap (0..(n - 1))
\* The first call has returned Ok.
FirstOk == pg.pc = "mapped" /\ pg.res = "Ok"

\* C13: after create_mapping has returned Ok on an empty table, for aligned
\* starts, any size and an attribute that maps, the walk for the k-th page
\* of the range ends at a present entry with exactly the requested
\* attribute bits that translates it to phys_start + 4096 * k.
C13_MappedRange ==
    (FirstOk /\ pg.arg.attr # "NotPresent") =>
        \A k \in PageSample(div_ceil(pg.arg.size)) :
            LET va == VPlus(pg.arg.virt, k)
                w == Walk(pg.pt, va)
            IN /\ is_present(w.e)
               /\ AttrBits(w.e) = PageTableAttr(pg.arg.attr)
               /\ ~w.e.up
               /\ Frame(w, va) = pg.arg.phys.pn + k

\* C13's case: a range of MaxPages pages that starts on the last page of a
\* PDPT's reach has been mapped, across the boundaries of a page table, a
\* page directory and a PDPT.
C13_Witness ==
    /\ FirstOk
    /\ pg.arg.virt = VAddr(0, ENTRIES - 1, ENTRIES - 1, ENTRIES - 1, 0)
    /\ pg.arg.attr = "ReadWriteKernel"
    /\ div_ceil(pg.arg.size) = MaxPages
    /\ Len(pg.pt.nodes) = 6

\* C14: create_mapping with a virt_start or a phys_start that is not
\* 4 KiB-aligned returns an error to its caller and leaves the page table
\* as it was.
C14_MisalignedReported ==
    (pg.pc = "mapped" /\ (pg.arg.virt.off # 0 \/ pg.arg.phys.off # 0)) =>
        (pg.res = "Err" /\ pg.pt = pg.old)

\* The second call maps 4 KiB pages where the table, before it, has a 1 GiB
\* entry at the PDPT level on the way to virt_start.
HugeInTheWay ==
    /\ pg.pc = "again"
    /\ pg.arg2.attr # "ReadWriteKernel1GiB"
    /\ Walk(pg.old, pg.arg2.virt).level = 3
    /\ is_huge(Walk(pg.old, pg.arg2.virt).e)

\* C15: a 4 KiB create_mapping that has to descend through an upper-level
\* entry that holds a 1 GiB mapping returns an error and leaves the table
\* as it was (it does not take the mapped frame for a page-table node).
C15_ConflictReported == HugeInTheWay => (pg.res = "Err" /\ pg.pt = pg.old)

\* C16: a second create_mapping with the arguments of the first returns to
\* its caller, Ok or with an error, and leaves the page table exactly as
\* the first call left it: the same entries in the same nodes, and no node
\* more.
C16_Idempotent ==
    (pg.pc = "again" /\ pg.arg2 = pg.arg) =>
        /\ Returned(pg.res)
        /\ pg.pt = pg.old
        /\ Len(pg.pt.nodes) = Len(pg.old.nodes)

\* C16's case: a range of MaxPages pages that took six nodes has been mapped
\* a second time, both calls returning Ok.
C16_Witness ==
    /\ pg.pc = "again"
    /\ pg.arg2 = pg.arg
    /\ pg.res1 = "Ok" /\ pg.res = "Ok"
    /\ div_ceil(pg.arg.size) = MaxPages
    /\ Len(pg.old.nodes) = 6

\* The index prefixes of lengths 1, 2 and 3 (PML4; PML4, PDPT; PML4, PDPT,
\* PD) that the pages of the range of n pages from v have.
Prefixes(v, n) ==
    UNION {{<<VPlus(v, k).idx[4]>>,
            <<VPlus(v, k).idx[4], VPlus(v, k).idx[3]>>,
            <<VPlus(v, k).idx[4], VPlus(v, k).idx[3], VPlus(v, k).idx[2]>>} :
           k \in 0..(n - 1)}

\* C17: create_mapping of 4 KiB pages on an empty table allocates exactly
\* one intermediate node for each index prefix that a page of the range
\* has, and none else: none at all for a range of size 0.
C17_NodePerPrefix ==
    (FirstOk /\ ~GiBRegion(pg.arg)) =>
        Len(pg.pt.nodes) =
            Cardinality(Prefixes(pg.arg.virt, div_ceil(pg.arg.size)))

\* The GiB of a range of n pages.
GiBs(n) == n \div GiBPages

\* C18: for a region aligned to 1 GiB on both sides, of whole GiB, with the
\* 1 GiB attribute (and a physical address the entry format can hold),
\* create_mapping on an empty table returns Ok, the walk for the start of
\* the k-th GiB ends at a huge entry of the PDPT level that maps
\* phys_start + k GiB, and no node but PDPTs has been allocated.
C18_HugePerGiB ==
    (pg.pc = "mapped" /\ GiBRegion(pg.arg) /\ ~pg.arg.phys.b63
        /\ pg.pt.heap = "identity") =>
        /\ pg.res = "Ok"
        /\ \A k \in 0..(GiBs(pg.arg.size.pages) - 1) :
               LET va == VPlus(pg.arg.virt, k * GiBPages)
               IN /\ Walk(pg.pt, va).level = 3
                  /\ is_huge(Walk(pg.pt, va).e)
                  /\ Walk(pg.pt, va).e.pn = pg.arg.phys.pn + k * GiBPages
        /\ \A n \in 1..Len(pg.pt.nodes) :
               \E i \in DOMAIN pg.pt.pml4 :
                   NodeAt(pg.pt, paddr(pg.pt.pml4[i])) = n

\* The first call asked for the 1 GiB attribute, with page-aligned starts,
\* for a range that is not aligned to 1 GiB in its virtual start, its
\* physical start or its number of pages.
FallBack ==
    /\ pg.arg.attr = "ReadWriteKernel1GiB"
    /\ pg.arg.virt.off = 0 /\ pg.arg.phys.off = 0
    /\ \/ pg.arg.virt.idx[1] # 0 \/ pg.arg.virt.idx[2] # 0
       \/ pg.arg.phys.pn % GiBPages # 0
       \/ div_ceil(pg.arg.size) % GiBPages # 0
\* The reference: the translation of a range of n pages written down page
\* by page, page k of the range to page k from the physical start.
Reference(v, pa, n) == {<<VPlus(v, k), pa.pn + k>> : k \in 0..(n - 1)}
\* What the table translates the pages of the range to, through present
\* entries of level 1.
Translation(T, v, n) ==
    {<<VPlus(v, k), Frame(Walk(T, VPlus(v, k)), VPlus(v, k))>> :
        k \in {j \in 0..(n - 1) : /\ Walk(T, VPlus(v, j)).level = 1
                                  /\ is_present(Walk(T, VPlus(v, j)).e)}}

\* C19: when the 1 GiB attribute is requested for a range that is not
\* aligned to 1 GiB, create_mapping on an empty table maps every page of
\* the range with a 4 KiB leaf entry, and the translation of the range is
\* that of the reference.
C19_FallBackTranslation ==
    (FirstOk /\ FallBack) =>
        Translation(pg.pt, pg.arg.virt, div_ceil(pg.arg.size)) =
            Reference(pg.arg.virt, pg.arg.phys, div_ceil(pg.arg.size))

\* C19's case: GiB-aligned starts with the 1 GiB attribute and MaxPages
\* pages have been mapped.
C19_Witness ==
    /\ FirstOk /\ FallBack
    /\ pg.arg.virt = VAddr(273, 0, 0, 0, 0)
    /\ pg.arg.phys.pn = GiBPages
    /\ div_ceil(pg.arg.size) = MaxPages
    /\ Len(pg.pt.nodes) = 3

\* C20: duplicate_kernel returns a table whose PML4 entry i is the source's
\* entry i, bit for bit, where that is present, and zero where it is not;
\* the source table is left as it was.
C20_DuplicateKernel ==
    pg.pc = "dup" =>
        /\ \A i \in 0..(ENTRIES - 1) :
               EntryAt(pg.dup, i) =
                   IF is_present(EntryAt(pg.old.pml4, i))
                   THEN EntryAt(pg.old.pml4, i)
                   ELSE ZeroEntry
        /\ pg.pt = pg.old

\* C20's case: a table with two present PML4 entries has been duplicated.
C20_Witness ==
    /\ pg.pc = "dup"
    /\ Cardinality({i \in 0..(ENTRIES - 1) :
                       is_present(EntryAt(pg.old.pml4, i))}) = 2
    /\ Cardinality(DOMAIN pg.dup) = 2

\* The two tables after a call that followed the duplication: the source
\* and the duplicate, over the nodes they share.
SourceTable == pg.pt
DuplicateTable == [pg.pt EXCEPT !.pml4 = pg.dup]
\* The PML4 entry of the third call's page was present when the table was
\* duplicated.
SharedAtDup ==
    is_present(EntryAt(pg.old.pml4, nth_level_table_index(pg.arg3.virt, 4)))
ThroughOk == pg.pc = "through" /\ pg.res = "Ok"

\* C21: after duplicate_kernel, a create_mapping through either table under
\* a PML4 entry that was present at duplication time is seen through the
\* other table too (both walks end at the same present entry), and a mapping
\* under a PML4 entry that was absent then is seen only through the table it
\* was made through.
C21_SharedBelowPml4 ==
    ThroughOk =>
        LET ws == Walk(SourceTable, pg.arg3.virt)
            wd == Walk(DuplicateTable, pg.arg3.virt)
        IN IF SharedAtDup
           THEN /\ ws = wd
                /\ is_present(ws.e) /\ ws.level = 1
                /\ ws.e.pn = pg.arg3.phys.pn
                /\ \A v \in {pg.arg.virt, pg.arg2.virt} :
                       is_present(EntryAt(pg.old.pml4, v.idx[4])) =>
                           Walk(SourceTable, v) = Walk(DuplicateTable, v)
           ELSE IF pg.through = "source"
           THEN is_present(ws.e) /\ ~is_present(wd.e) /\ wd.level = 4
           ELSE is_present(wd.e) /\ ~is_present(ws.e) /\ ws.level = 4

\* C21's case: a page has been mapped through the duplicate in a page
\* directory the call had to allocate, under a PML4 entry both tables hold
\* since the duplication.
C21_Witness ==
    /\ ThroughOk /\ SharedAtDup /\ pg.through = "duplicate"
    /\ pg.arg3.virt.idx[3] # pg.arg.virt.idx[3]
    /\ is_present(Walk(SourceTable, pg.arg3.virt).e)

\* The present entries of a table, those of every node.
PresentEntries(T) ==
    {T.pml4[i] : i \in {j \in DOMAIN T.pml4 : is_present(T.pml4[j])}}
    \cup UNION {{T.nodes[n][i] :
                    i \in {j \in DOMAIN T.nodes[n] : is_present(T.nodes[n][j])}} :
                n \in 1..Len(T.nodes)}

\* C22: set_entry with a physical address that has one of its low 12 bits
\* set returns an error and leaves the entry as it was; and the physical
\* address read back from a present entry, of a table or as set_entry left
\* it, has its low 12 bits zero.
C22_SetEntryAligned ==
    /\ (pg.pc = "set" /\ pg.set.pa.off # 0) =>
           pg.set.res = "Err" /\ pg.set.after = pg.set.e
    /\ (pg.pc = "set" /\ pg.set.res = "Ok") =>
           /\ pg.set.pa.off = 0
           /\ paddr(pg.set.after) = pg.set.pa
    /\ \A e \in PresentEntries(pg.pt) \cup {pg.set.after} : paddr(e).off = 0

\* C22's case: set_entry has been called with 0x5007 on a present entry.
C22_Witness ==
    /\ pg.pc = "set" /\ pg.set.pa.off = 7 /\ pg.set.pa.pn = 5
    /\ is_present(pg.set.e) /\ pg.set.attr = "ReadWriteKernel"
    /\ pg.set.res = "Err"

\* ------------------------------------------------------- claims on tasks
\* The pids handed out so far and held by a task: those of the list and,
\* while spawn is between Task::new and the push, that of the new task.
PidsHeld ==
    {tasks[i].pid : i \in 1..Len(tasks)}
    \cup (IF pc \in {"spawn_push_lock", "spawn_push"} THEN {spl.task} ELSE {})

\* C27: the pids of the task list are 0 for the idle task and strictly
\* increasing in the order of creation, so no two are equal; all are below
\* the counter; and a step that creates a task gives it the counter's value,
\* greater than every pid handed out before, and moves the counter up.
C27_PidsIncrease ==
    /\ [](/\ \A i, j \in 1..Len(tasks) : i < j => tasks[i].pid < tasks[j].pid
          /\ Len(tasks) >= 1 => tasks[1].pid = 0
          /\ \A p \in PidsHeld : 0 <= p /\ p < PID
          /\ pc = "spawn_push" => \A i \in 1..Len(tasks) : tasks[i].pid < spl.task)
    /\ [][/\ PID' >= PID
          /\ PID' # PID => /\ PID' = PID + 1
                           /\ PidsHeld' = PidsHeld \cup {PID}
                           /\ \A p \in PidsHeld : p < PID]_vars

\* C27's case: init and two spawns have made the tasks 0, 1 and 2.
C27_Witness ==
    /\ Len(tasks) = 3
    /\ PID = 3
    /\ <<tasks[1].pid, tasks[2].pid, tasks[3].pid>> = <<0, 1, 2>>

\* ---------------------------------------------------- claims on the heap
\* x is a multiple of 2^k: its k low bits are zero.
MultipleOf(x, k) == \A i \in 1..4 : x[i] % 2 ^ bits_below(k, i) = 0
\* The last call was an alloc that has returned.
AllocReturned == ALLOCATOR.pc = "ready" /\ ALLOCATOR.last.op = "alloc"

\* C23: every pointer alloc has returned that is not null is a multiple of
\* the alignment of its layout, whatever was allocated and freed before.
C23_Aligned ==
    ALLOCATOR.pc # "idle" =>
        /\ \A i \in 1..Len(ALLOCATOR.returned) :
               MultipleOf(ALLOCATOR.returned[i].ptr,
                          ALLOCATOR.returned[i].layout.k)
        /\ (AllocReturned /\ ALLOCATOR.last.ptr # ZeroWord) =>
               MultipleOf(ALLOCATOR.last.ptr, ALLOCATOR.last.layout.k)

\* C23's case: a page on a page boundary has been returned after a block
\* that left next off every 8-byte boundary.
C23_Witness ==
    /\ AllocReturned
    /\ ALLOCATOR.last.layout.k = 12
    /\ ALLOCATOR.last.ptr # ZeroWord
    /\ ~MultipleOf(ALLOCATOR.last.before.next, 3)
    /\ Len(ALLOCATOR.returned) = 2

\* The least multiple of 2^k that is at least next, plus size, lies beyond
\* end or beyond 64 bits.
Exceeds(a, layout) ==
    \/ overflows(a.next, align_minus_1(layout.k))
    \/ overflows(and_not_mask(wrapping_add(a.next, align_minus_1(layout.k)),
                              layout.k), layout.size)
    \/ word_gt(wrapping_add(and_not_mask(wrapping_add(a.next,
                                                       align_minus_1(layout.k)),
                                         layout.k), layout.size),
               a.end)

\* C24: alloc returns null exactly when the aligned start plus the size
\* lies beyond the end of the heap (or overflows), and an alloc that has
\* returned null has left next as it was.
C24_NullOnExhaustion ==
    AllocReturned =>
        /\ (ALLOCATOR.last.ptr = ZeroWord) <=>
               Exceeds(ALLOCATOR.last.before, ALLOCATOR.last.layout)
        /\ (ALLOCATOR.last.ptr = ZeroWord) =>
               ALLOCATOR.a = ALLOCATOR.last.before

\* a <= b.
word_le(a, b) == ~word_gt(a, b)
\* The byte after the last of a returned block.
BlockEnd(r) == wrapping_add(r.ptr, r.layout.size)
\* A returned block lies inside [start, end) of the heap.
InsideHeap(a, r) ==
    /\ word_le(a.start, r.ptr)
    /\ ~overflows(r.ptr, r.layout.size)
    /\ word_le(BlockEnd(r), a.end)

\* C25: dealloc leaves the allocator as it was; the blocks alloc has
\* returned lie inside the heap and no two of them overlap; and next never
\* decreases.
C25_NoReuse ==
    /\ [](ALLOCATOR.pc = "ready" =>
            /\ ALLOCATOR.last.op = "dealloc" =>
                   ALLOCATOR.a = ALLOCATOR.last.before
            /\ \A i \in 1..Len(ALLOCATOR.returned) :
                   InsideHeap(ALLOCATOR.a, ALLOCATOR.returned[i])
            /\ \A i, j \in 1..Len(ALLOCATOR.returned) :
                   i < j => \/ word_le(BlockEnd(ALLOCATOR.returned[i]),
                                       ALLOCATOR.returned[j].ptr)
                            \/ word_le(BlockEnd(ALLOCATOR.returned[j]),
                                       ALLOCATOR.returned[i].ptr))
    /\ [][ALLOCATOR.pc = "ready" =>
              word_le(ALLOCATOR.a.next, ALLOCATOR'.a.next)]_vars

\* ----------------------------------------------- claims on the spin lock
\* The contexts that hold a SpinGuard of the lock.
Guards == {c \in Contexts : spin.at[c] = "guard"}

\* C26: at most one SpinGuard of the lock exists at any time, and the flag
\* is set while it exists; a context gets its guard only in a step that
\* changes the flag from unlocked to locked; and the flag goes from locked
\* to unlocked only in the step in which the holder drops its guard.
C26_MutualExclusion ==
    /\ [](spin.pc = "run" => Cardinality(Guards) <= 1 /\ (Guards # {} => spin.locked))
    /\ [][spin.pc = "run" =>
            /\ \A c \in Contexts :
                   (spin.at[c] # "guard" /\ spin'.at[c] = "guard") =>
                       ~spin.locked /\ spin'.locked
            /\ (spin.locked /\ ~spin'.locked) =>
                   \E c \in Contexts :
                       /\ Guards = {c}
                       /\ spin.at[c] = "guard" /\ spin'.at[c] = "out"]_vars

\* C26's case: one context holds the guard while the two others have
\* called lock, one spinning and one about to swap.
C26_Witness ==
    /\ spin.pc = "run"
    /\ Cardinality(Guards) = 1
    /\ \E c \in Contexts : spin.at[c] = "spin_loop"
    /\ \E c \in Contexts : spin.at[c] = "swap"
    /\ \E c \in Contexts : spin.calls[c] = MaxLocks

\* ------------------------------------- claims on the descriptor tables
\* The privileged instructions of init_gdt, in the order claimed.
GdtOrder ==
    <<<<"lgdt", 39>>, <<"ltr", 3 * 8>>,
      <<"mov ds", 2 * 8>>, <<"mov es", 2 * 8>>, <<"mov fs", 2 * 8>>,
      <<"mov gs", 2 * 8>>, <<"mov ss", 2 * 8>>,
      <<"ljmp", 1 * 8>>>>
\* s is t or the beginning of t.
IsPrefix(s, t) == Len(s) <= Len(t) /\ \A i \in 1..Len(s) : s[i] = t[i]
\* The instructions of kind op executed so far.
Executed(op) == {i \in 1..Len(cpu.trace) : cpu.trace[i][1] = op}

\* C28: what init_gdt has executed is at any time the beginning of: lgdt,
\* ltr with selector 3<<3, the moves of 2<<3 into ds, es, fs, gs and ss,
\* the far jump that loads cs with 1<<3; so no later step runs before an
\* earlier one, and after the last the registers hold these selectors.
C28_GdtOrder ==
    cpu.pc # "idle" =>
        /\ \/ IsPrefix(cpu.trace, GdtOrder)
           \/ IsPrefix(GdtOrder, cpu.trace)
        /\ cpu.pc \in {"idt_new", "lidt", "sti", "done"} =>
               /\ cpu.gdtr = "kernel" /\ cpu.tr = 24 /\ cpu.cs = 8
               /\ \A r \in {cpu.ds, cpu.es, cpu.fs, cpu.gs, cpu.ss} : r = 16

\* C28's case: the far jump has run, last of the four steps, on a processor
\* that came with other selectors.
C28_Witness ==
    /\ cpu.pc = "idt_new"
    /\ Len(cpu.trace) = 8
    /\ cpu.trace[8] = <<"ljmp", 8>>
    /\ cpu.trace[1][1] = "lgdt"
    /\ cpu.cs = 8 /\ cpu.ss = 16

\* The address a gate sends the processor to: offset_high, offset_middle
\* and offset_low put together.
GateTarget(d) ==
    word(d.offset_high[2], d.offset_high[1], d.offset_middle, d.offset_low)

\* C29: once lidt has activated the table, it has 256 gates, each present;
\* the gates of vectors 3, 6, 13, 14 and 42 lead to interrupt_entry_3, _6,
\* _13, _14 and _42 and every other gate to the unimplemented handler, the
\* address put together from the three offset fields being the handler's;
\* the privilege level is 3 for vector 3 and 0 for every other vector.
C29_IdtGates ==
    (cpu.pc # "idle" /\ cpu.idtr.base = "entries") =>
        /\ DOMAIN cpu.entries = 0..255
        /\ cpu.idtr.limit = 256 * 16 - 1
        /\ \A v \in 0..255 :
               /\ cpu.entries[v].present
               /\ GateTarget(cpu.entries[v]) =
                      IF v = 3 THEN cpu.sym["interrupt_entry_3"]
                      ELSE IF v = 6 THEN cpu.sym["interrupt_entry_6"]
                      ELSE IF v = 13 THEN cpu.sym["interrupt_entry_13"]
                      ELSE IF v = 14 THEN cpu.sym["interrupt_entry_14"]
                      ELSE IF v = 42 THEN cpu.sym["interrupt_entry_42"]
                      ELSE cpu.sym["interrupt_handler_unimplemented"]
               /\ cpu.entries[v].dpl = IF v = 3 THEN 3 ELSE 0

\* C29's case: the table has been activated with the stubs lying across the
\* 4 GiB boundary, so that the three offset fields of the gates differ.
C29_Witness ==
    /\ cpu.pc = "sti"
    /\ cpu.idtr.base = "entries"
    /\ cpu.sym["interrupt_handler_unimplemented"] = word(0, 1, 65535, 65504)
    /\ cpu.entries[42].offset_high = <<2, 0>>
    /\ cpu.entries[42].offset_middle = 0
    /\ cpu.entries[42].offset_low = 112
    /\ cpu.entries[0].offset_high = <<1, 0>>

\* ------------------------------------- claims on the memory-region table
\* The table holds, in the order of the pushes, the regions of the first
\* count descriptors, and zeroed records after them.
HoldsPushed(m) ==
    \A j \in 0..127 :
        m.arr.regions[j] =
            IF j < m.arr.count THEN region_of(m.memory_map[j + 1])
            ELSE MemoryRegion_zeroed

\* C30: the table never holds more than 128 records; each push onto a table
\* of fewer than 128 stores its record at index count and adds one to
\* count, so the records are in push order; and a push onto a table of 128
\* aborts and leaves every record and count as they were.
C30_RegionTable ==
    /\ [](memory_regions.pc # "idle" =>
            /\ memory_regions.arr.count <= 128
            /\ DOMAIN memory_regions.arr.regions = 0..127
            /\ HoldsPushed(memory_regions)
            /\ memory_regions.pc = "panic" => memory_regions.arr.count = 128)
    /\ [][memory_regions.pc = "for" =>
            IF memory_regions.next > Len(memory_regions.memory_map)
            THEN memory_regions'.arr = memory_regions.arr
            ELSE IF memory_regions.arr.count < 128
            THEN /\ memory_regions'.pc = "for"
                 /\ memory_regions'.arr.count = memory_regions.arr.count + 1
                 /\ memory_regions'.arr.regions =
                        [memory_regions.arr.regions EXCEPT
                            ![memory_regions.arr.count] =
                                region_of(memory_regions.memory_map[
                                              memory_regions.next])]
            ELSE /\ memory_regions'.pc = "panic"
                 /\ memory_regions'.arr = memory_regions.arr]_vars

\* C30's case: the 129th descriptor of a memory map has been pushed onto
\* the full table.
C30_Witness ==
    /\ memory_regions.pc = "panic"
    /\ memory_regions.next = 129
    /\ Len(memory_regions.memory_map) = 130
    /\ memory_regions.arr.count = 128
    /\ memory_regions.arr.regions[127] = region_of(memory_regions.memory_map[128])

\* -------------------------------------------- claims on the timer count
\* C36: a call of increment_count leaves a count that is not 0: from
\* 2^32 - 1 it leaves 1, and from every other value the value plus one.
C36_SkipZero ==
    (apic_timer.pc # "idle" /\ apic_timer.calls > 0) =>
        /\ apic_timer.pc = "run"
        /\ apic_timer.count # u32(0, 0)
        /\ apic_timer.count =
               IF apic_timer.before = U32_MAX THEN u32(0, 1)
               ELSE u32_add_1(apic_timer.before)

\* ------------------------------------------------------- claims on spawn
\* The saved context of t but for the address of its rsp: rsp is at the
\* first word of the saved stack of t, that word is the address of the entry
\* function, rflags is 0x202 and the callee-saved registers are zero.
PrimedContext(t) ==
    /\ t.context.rsp = <<StackOf(t.pid), 1>>
    /\ Len(mem[StackOf(t.pid)]) >= 1
    /\ mem[StackOf(t.pid)][1] = RetCell("entry")
    /\ t.context.rflags = TRUE
    /\ \A r \in {"rbx", "rbp", "r12", "r13", "r14", "r15"} : t.context[r] = 0

\* C32: after spawn(entry) has set up the new task (setup_initial_call has
\* run, the guard of the task is about to be dropped) the saved rsp of the
\* task is the top of its own 16 KiB kernel stack minus 8, the word there is
\* the address of entry, the saved flags are 0x202 and the callee-saved
\* registers are zero.
C32_PrimedContext ==
    pc = "spawn_page_table" =>
        LET t == TaskOf(spl.task)
        IN /\ t.kernel_stack = spl.kstack
           /\ address_of(t.kernel_stack, t.context.rsp[2])
                  = t.kernel_stack + KERNEL_STACK_SIZE - 8
           /\ PrimedContext(t)

\* ------------------------------------- claims on interrupt_handler_common
\* C33: for every 8-byte-aligned S the prologue calls the dispatcher with
\* rsp a multiple of 16 and with S as its argument, and after the
\* dispatcher has returned rsp is S again before the first pop.
C33_AlignedCall ==
    /\ prologue.pc = "call" =>
           prologue.rsp % 16 = 0 /\ prologue.rdi = prologue.S
    /\ prologue.pc = "interrupt_handler" => prologue.arg = prologue.S
    /\ prologue.pc = "pop_rax" => prologue.rsp = prologue.S

\* Reached: the dispatcher was called with S = 8 modulo 16, it wrote a
\* frame of MaxFrame words, and the prologue is at its first pop.
C33_Witness ==
    /\ prologue.pc = "pop_rax"
    /\ prologue.S % 16 = 8
    /\ prologue.frame = MaxFrame
    /\ prologue.arg = prologue.S
    /\ prologue.rsp = prologue.S

\* --------------------------------------- claims on the interrupt epilogue
\* A task was switched away from inside the interrupt epilogue and has not
\* been resumed: it is not running and its saved rsp lies on the interrupt
\* stack, below the frame whose iretq is still to come.
PendingIretq ==
    \E i \in 1..Len(tasks) :
        ~tasks[i].running /\ tasks[i].context.rsp[1] = IstStack

\* C34: when the scheduler is called from the quantum check of the
\* interrupt epilogue, interrupts stay disabled from the interrupt's entry
\* to its iretq: IF is clear while the CPU is on the interrupt stack and
\* while a task switched away from in the epilogue waits for its iretq, so
\* no second timer interrupt is taken on that stack before.
C34_DisabledUntilIretq ==
    (sp[1] = IstStack \/ PendingIretq) => ~iflag

\* --------------------------------------------- claims on the current task
\* C35: after task::init, outside the critical section of the scheduler,
\* the current-task reference is set and refers to a task of the list, that
\* task has running = true and every other task has running = false.
C35_OneRunning ==
    (Len(tasks) > 0 /\ pc \notin Critical) =>
        /\ current_task # NoTask
        /\ \E i \in 1..Len(tasks) : tasks[i].pid = current_task
        /\ \A i \in 1..Len(tasks) :
               tasks[i].running <=> (tasks[i].pid = current_task)

\* Reached: three tasks, the scheduler has switched to the last one, whose
\* code runs; it alone is marked running.
C35_Witness ==
    /\ pc = "task"
    /\ Len(tasks) = 3
    /\ current_task = 2
    /\ sp[1] = StackOf(2)
    /\ tasks[3].running /\ ~tasks[1].running /\ ~tasks[2].running

\* ------------------------------------------------- claims on starvation
\* The code of task p runs: p is the current task and the CPU executes task
\* code on the stack of p.
Runs(p) == current_task = p /\ pc = "task" /\ sp[1] = StackOf(p)

\* C37: with at least two Runnable tasks and timer interrupts that keep
\* arriving, every Runnable task of the list becomes the current task and
\* runs, again and again: none is starved.
C37_NoStarvation ==
    \A p \in 0..(MaxTasks - 1) :
        (p < Len(tasks)) => []<>Runs(p)

\* ------------------------------------------ claims on spawn and the scan
\* Task t has all that spawn gives a task: a kernel stack, a saved context
\* that points into a stack, and a page table.
Initialised(t) ==
    /\ t.kernel_stack # NoStack
    /\ t.context.rsp # NullSp
    /\ t.page_table # 0

\* C38: a task the scan of the scheduler has found Runnable is fully
\* initialised: from the choice of next to the context swap, next is
\* Runnable and has a page table, and a spawned next (any task but the idle
\* task, which task::init makes) has its kernel stack and its context.
C38_RunnableInitialised ==
    (pc \in ({"switch_selected"} \cup Choosing \cup Published)
         /\ loc.next # NoTask) =>
        LET t == TaskOf(loc.next)
        IN /\ t.state = "Runnable"
           /\ t.page_table # 0
           /\ loc.next # 0 => Initialised(t)

\* Reached: the scheduler, called from the interrupt epilogue, has chosen
\* the task spawned last, which has not run yet.
C38_Witness ==
    /\ pc = "switch_selected"
    /\ loc.via = "schedule"
    /\ loc.next = 2
    /\ Len(tasks) = 3
    /\ TaskOf(loc.next).context.rsp = <<StackOf(loc.next), 1>>
    /\ Initialised(TaskOf(loc.next))

\* ------------------------------------- claims on locks and the timer path
\* The timer interrupt path is at an acquisition of a spin-lock that is
\* held: of LOCAL_APIC_TIMER in increment_count or notify_end_of_interrupt,
\* or, in the scheduler called from the epilogue, of TASKS, of current_task,
\* of the task whose state the scan reads or of the previous task.  The
\* path holds none of these locks itself at these points, so the holder is
\* the code that was interrupted.
SpinsOnHeldLock ==
    \/ pc = "interrupt_handler" /\ FrameVector = VEC_TIMER /\ locks.timer
    \/ pc = "notify_end_of_interrupt" /\ locks.timer
    \/ /\ loc.via = "schedule"
       /\ \/ pc = "switch_tasks" /\ locks.TASKS
          \/ pc = "switch_current" /\ locks.current_task
          \/ pc = "switch_scan" /\ tasks[loc.i + 1].locked
          \/ pc = "switch_lock_prev" /\ TaskOf(loc.prev).locked

\* C39: the timer interrupt path never comes to acquire a spin-lock that
\* the code it interrupted holds, so that the handler never spins for ever.
C39_NoSpinOnHeldLock == ~SpinsOnHeldLock

\* --------------------------------------------------- claims on the loader
\* The three allocations of main and the region table are done.
AllAllocated ==
    /\ loader.image # NoExtent
    /\ loader.stack # NoExtent
    /\ loader.heap # NoExtent
    /\ loader.memory_regions # << >>

\* C31: the loader jumps to the kernel entry only after exit_boot_services
\* has succeeded, and the key passed to it is the key of a memory map
\* retrieved after every allocation of the loader (image, stack, heap,
\* region table), with no allocation between the retrieval and the call.
C31_ExitThenJump ==
    /\ loader.pc \in {"kernel_entry", "kernel"} =>
           /\ loader.status = "SUCCESS"
           /\ loader.passed = loader.memory_map_2.map_key
    /\ loader.pc = "exit_boot_services" =>
           /\ AllAllocated
           /\ memory_map_in_scope(loader).after = loader.allocations
           /\ memory_map_in_scope(loader).map_key = loader.key

\* Reached: the kernel has been entered, the firmware having taken pages
\* for the buffer of the second memory map before the map was retrieved.
C31_Witness ==
    /\ loader.pc = "kernel"
    /\ loader.status = "SUCCESS"
    /\ loader.memory_map_2.after = 4
    /\ loader.allocations = 4

\* The bytes of region r and of extent e (an allocation of the loader)
\* overlap.
Overlaps(r, e) ==
    /\ e.number_of_pages > 0
    /\ r.len > 0
    /\ r.base < end_of(e)
    /\ e.physical_start < r.base + r.len

\* C40: no region the table handed to the kernel reports as Usable overlaps
\* the memory the loader allocated for the kernel image, the stack or the
\* heap.
C40_UsableNotAllocated ==
    loader.pc \in {"kernel_entry", "kernel"} =>
        \A i \in 1..Len(loader.memory_regions) :
            loader.memory_regions[i].typ = "Usable" =>
                \A e \in {loader.image, loader.stack, loader.heap} :
                    ~Overlaps(loader.memory_regions[i], e)

====
